---- MODULE Spec2Model ----
(***************************************************************************)
(* A model of pi-sound-logger: the store-and-forward synchronizer          *)
(* (database/mongodb/data_sync_manager.py), the application start-up       *)
(* (main.py), the per-second sampler (acquisition/acoustic_stream.py) and  *)
(* the disconnect callback (main.py, acquisition/acquisition_manager.py).  *)
(*                                                                         *)
(* Spec and LiveSpec are the synchronizer on its own; AppSpec and         *)
(* LiveAppSpec are the application with its acquisition pipeline. In each  *)
(* the variables the other does not touch stay at their initial values.   *)
(***************************************************************************)
EXTENDS Integers, Sequences, FiniteSets, TLC

\* ------------------------------------------------------------------------
\* Bounds of the model
\* ------------------------------------------------------------------------
MaxRows == 2
MaxQueue == 2
MaxOutages == 1
MaxFailures == 1
MaxCopies == 2
MaxRuns == 2
MaxTicks == 2
MaxUnplugs == 1
MaxPoolFailures == 1
samples_per_second == 2
StartSecond == 58

\* ------------------------------------------------------------------------
\* Program constants
\* ------------------------------------------------------------------------
FetchLimit == 3600
num_workers == 10

\* The local tables the producers write.
Tables == {"LAeq"}

Min(a, b) == IF a < b THEN a ELSE b

Range(s) == {s[i] : i \in DOMAIN s}

\* The elements of s kept in order, minus position k.
WithoutIndex(s, k) ==
    [i \in 1..(Len(s) - 1) |-> IF i < k THEN s[i] ELSE s[i + 1]]

\* ------------------------------------------------------------------------
\* State of RemoteSync
\* ------------------------------------------------------------------------
VARIABLES
    localRows,                 \* table -> sequence of rows, position = id
    remote,                    \* table -> document -> number of copies
    mongodb_connection_event,  \* ConnectionHandler.mongodb_connection_event
    sync_state,                \* DataSyncManager.run: "waiting" | "running" | "stopping"
    db_table_map,              \* MySQLDataFetcher.db_table_map (tables seen)
    last_success,              \* MySQLDataFetcher.last_success
    pending_ids,               \* MySQLDataFetcher.pending_ids
    data_queue,                \* fetcher -> transfer
    status_queue,              \* transfer -> fetcher
    schema_map,                \* MongoDBDataTransfer.schema_map
    tasks,                     \* process_data tasks in flight
    outages,                   \* connection losses so far
    failures                   \* remote operations failed while connected

syncVars == <<localRows, remote, mongodb_connection_event, sync_state,
              db_table_map, last_success, pending_ids, data_queue,
              status_queue, schema_map, tasks, outages, failures>>

\* ------------------------------------------------------------------------
\* State of the application: start-up, device supervision, disconnect
\* callback, acquisition managers with their sampler and scheduler
\* ------------------------------------------------------------------------
VARIABLES
    app_pc,                    \* Application.start: where the coroutine stands
    mongo_task_started,        \* main.py: mongo_task created
    mysql_pool,                \* MySQLConnectionManager.pool is not None
    mysql_delay,               \* MySQLConnectionManager.manager_start: delay
    pool_failures,             \* pool creations failed so far
    monitor_pc,                \* MonitorStatus.check_serial_device: "off" | "waiting" | "monitoring"
    device_present,            \* the serial device is plugged in
    device_connected_event,    \* Application.device_connected_event
    unplugs,                   \* times the device was unplugged
    callback_in_progress,      \* MonitorStatus.callback_in_progress
    cb_pc,                     \* Application.handle_device_disconnected: position
    audio_detector,            \* an AudioStallDetector task is running
    acquisition_manager,       \* Application.acquisition_manager: 0 = None, else its number
    acquisition_task,          \* manager number -> state of the task running its start()
    streams,                   \* manager number -> its AcousticStream
    schedulers,                \* manager number -> its AggregationManager / TimeManager
    loop_owner,                \* the sampler that holds the event loop, 0 = the loop is free
    now,                       \* the wall clock, in whole seconds
    aggRows,                   \* rows of the aggregate table LAeq1min
    sampled_seconds            \* seconds whose cycle collected every sample and ended uncancelled

startVars == <<app_pc, mongo_task_started, mysql_pool, mysql_delay, pool_failures>>
deviceVars == <<monitor_pc, device_present, device_connected_event, unplugs>>
callbackVars == <<callback_in_progress, cb_pc, audio_detector>>
acqVars == <<acquisition_manager, acquisition_task, streams, schedulers>>
appVars == <<startVars, deviceVars, callbackVars, acqVars, loop_owner, now,
             aggRows, sampled_seconds>>

\* ------------------------------------------------------------------------
\* State of the units examined on their own
\* ------------------------------------------------------------------------
VARIABLES
    laf_readings,              \* what device.read_level() returned in one cycle
    leq_readings,              \* what device.read_leq() returned in one cycle
    param,                     \* position of the loop over the acoustic parameters
    value_rows                 \* the values inserted in that cycle

valueVars == <<laf_readings, leq_readings, param, value_rows>>

VARIABLES
    clock,                     \* local wall clock, in units of 1/Res second
    tm_ticks,                  \* number of times _tick ran
    tm_pc,                     \* where TimeManager.start is: "none", "sleep", "notify", "handler"
    tm_until,                  \* earliest clock at which the pending await returns
    current_time,              \* current_time of the running or last _tick
    tm_todo,                   \* <<interval, subscriber>> pairs _tick has still to notify
    last_examined,             \* the second the latest _tick looked at
    missed,                    \* the seconds that passed between two ticks, looked at by none
    late_returns,              \* number of times an await returned late
    invocations,               \* the notifyAboutInterval calls made so far, in order
    handler_errors,            \* number of handlers that raised
    agg_tables,                \* timestamps of the rows of the LAeq tables
    sampler_second             \* the second whose base row the sampler writes next

schedVars == <<clock, tm_ticks, tm_pc, tm_until, current_time, tm_todo, last_examined,
               missed, late_returns, invocations, handler_errors, agg_tables, sampler_second>>

VARIABLES
    lden_pc,                   \* where aggregate_lden is: "idle", "called", "done"
    src_rows,                  \* timestamps of the rows of LAeq1h, LAeq15min and LAeq30min
    src_level,                 \* the level of the rows of each of these tables
    lden_rows                  \* the rows of the Lden table

ldenVars == <<lden_pc, src_rows, src_level, lden_rows>>

VARIABLES
    unc_pc,                    \* where the aggregation manager is: "idle", "loading", "done"
    unc_config,                \* config['AcousticSequences']
    unc_pos,                   \* position of _load_aggregators in it
    aggregators,               \* AggregationManager.aggregators, by class
    unc_lden_exists,           \* the Lden table has the row of the day that ended
    unc_groups,                \* every group of day, evening and night has source rows
    u_lden_rows                \* the timestamps of the rows of U_Lden

uncVars == <<unc_pc, unc_config, unc_pos, aggregators, unc_lden_exists, unc_groups,
             u_lden_rows>>

VARIABLES
    rec_pc,                    \* where AudioStream._run_loop is: "none", "top", "watchdog", "rotating", "read"
    aclock,                    \* the wall clock of the recorder, in seconds
    advances,                  \* number of times that clock moved
    chunk_timestamp,                 \* the timestamp taken at the top of the iteration
    aligned_minute,            \* its minute
    wavfile,                   \* the start of the file that is open, <<>> for none
    current_file_start_time,   \* WavWriter.current_file_start_time, <<>> for None
    converted,                 \* the files that were closed and converted
    chunks,                    \* the chunks written: the file and the timestamp of each
    forced,                    \* the forced rotations: the clock observed, the file closed, the file opened
    open_handles,              \* the WAV files with an open handle
    wav_files,                 \* the WAV files in the construct directory
    mp3_files,                 \* the MP3 files in the final directory
    failed                     \* the files whose conversion raised

audioVars == <<rec_pc, aclock, advances, chunk_timestamp,
               aligned_minute, wavfile,
               current_file_start_time, converted, chunks, forced, open_handles,
               wav_files, mp3_files, failed>>

VARIABLES
    at_pc,             \* where AudioTransfer.run is: "none", "scan", "single", "batch"
    working_dir,       \* the minutes whose .mp3 is in the staging directory
    staged,            \* number of files staged so far
    laeq1min,          \* the minutes that have a row in LAeq1min
    audio_trigger,     \* AudioTransfer.audio_trigger, <<>> for None
    at_files,          \* the files of the listing that are still to process
    at_batch,          \* the files of the current batch still to prepare
    batch_documents,   \* the documents prepared for the current batch
    audio_collection,  \* the minutes whose file is in the remote audio collection
    removed,           \* the local deletions: file, value fetched, row and trigger at that time, acknowledged
    scans              \* number of directory scans of the run loop

transferVars == <<at_pc, working_dir, staged, laeq1min, audio_trigger, at_files, at_batch,
                  batch_documents, audio_collection, removed, scans>>

VARIABLES
    sv_present,        \* the serial device is plugged in
    sv_event,          \* Application.device_connected_event
    sv_monitor,        \* MonitorStatus.check_serial_device: "none", "waiting", "monitoring"
    sv_flags,          \* callback_in_progress of MonitorStatus and of MicrophoneDetails
    sv_detectors,      \* the AudioStallDetector loops that run; every one has callback_in_progress False
    sv_detector,       \* Application.audio_detector: the detector the application holds, 0 for None
    sv_calls,          \* the invocations of handle_device_disconnected: source and position
    sv_manager,        \* Application.acquisition_manager: the number of the current one
    sv_running,        \* the acquisition managers whose sampler, recorder and scheduler run
    sv_losses,         \* transitions found -> not found seen by the presence loop
    sv_loss_calls,     \* invocations of the callback started by the presence loop
    sv_skipped,        \* transitions for which the presence loop found its flag set
    sv_unplugs         \* times the device was unplugged

supervisorVars == <<sv_present, sv_event, sv_monitor, sv_flags, sv_detectors, sv_detector,
                    sv_calls, sv_manager, sv_running, sv_losses, sv_loss_calls, sv_skipped,
                    sv_unplugs>>

VARIABLES
    sd_pc,                 \* AudioStallDetector.start: "none", "running", "stopped"
    sd_folder,             \* the minute-timestamps of the .mp3 files in the audio folder
    sd_staged,             \* number of files staged so far
    last_seen_timestamp,   \* AudioStallDetector.last_seen_timestamp, 0 for None
    stall_scan_counter,    \* AudioStallDetector.stall_scan_counter
    sd_in_progress,        \* AudioStallDetector.callback_in_progress
    sd_invocations,        \* times the detector invoked the callback
    sd_quiet               \* consecutive scans in which the newest timestamp did not advance

stallVars == <<sd_pc, sd_folder, sd_staged, last_seen_timestamp, stall_scan_counter,
               sd_in_progress, sd_invocations, sd_quiet>>

VARIABLES
    su_pc,          \* Application.start: "none", "start", "pool_retry", "pool_returned",
                    \* "await_device", "running", "start_failed"
    su_attempt,     \* manager_start: attempt
    su_delay,       \* manager_start: delay
    su_slept,       \* the delays manager_start has slept, in order
    su_pool,        \* the value manager_start returned: "unset", "none", "pool"
    su_ready,       \* Application.mysql_ready_event
    su_monitor,     \* MonitorStatus.check_serial_device: "none", "waiting", "monitoring"
    su_present,     \* the sensor's symlink exists
    su_event,       \* device_connected_event
    su_was_set,     \* device_connected_event has been set
    su_path,        \* MonitorStatus.serial_path, 0 for None
    su_acquisition, \* acquisition_task: "none", "created", "aggregating", "streaming"
    su_started      \* the components started so far

startupVars == <<su_pc, su_attempt, su_delay, su_slept, su_pool, su_ready, su_monitor,
                 su_present, su_event, su_was_set, su_path, su_acquisition, su_started>>

VARIABLES
    sh_pc,        \* Application.stop: "none", "running", "cancel", "acquisition",
                  \* "remote", "pool", "stopped", "raised"
    sh_manager,   \* Application.acquisition_manager is not None
    sh_pool,      \* MySQLConnectionManager.pool: "none", "open", "closed"
    sh_tasks,     \* Application.tasks
    sh_cancelled, \* number of tasks of Application.tasks cancelled by this call
    sh_live,      \* the components still running
    sh_work,      \* per component, the work done since the state at which stop() was due
    sh_steps,     \* the steps of the shutdown reached by this call of stop()
    sh_stops      \* calls of Application.stop

shutdownVars == <<sh_pc, sh_manager, sh_pool, sh_tasks, sh_cancelled, sh_live, sh_work,
                  sh_steps, sh_stops>>

VARIABLES
    la_clock,    \* the wall clock, in whole seconds of the minute before the boundary and after it
    la_levels,   \* per second, the level the sampler measures in it
    la_source,   \* table LAeq: the timestamps of the rows written
    la_pc,       \* the 1min handler of the boundary: "waiting", "notified", "done"
    la_read,     \* the timestamps aggregate_data fetched
    la_target,   \* table LAeq1min: the rows written, <<timestamp, value>>
    la_helper    \* the calls of the helper calculate_laeq, <<sound_levels, result>>

laeqVars == <<la_clock, la_levels, la_source, la_pc, la_read, la_target, la_helper>>

VARIABLES
    gr_subscribers, \* TimeManager.subscribers['24h'], in the order of subscription
    gr_clock,       \* seconds since the tick of the 24h boundary
    gr_todo,        \* the subscribers _notify_subscribers has still to notify
    gr_handler,     \* the handler being awaited: <<subscriber, time its sleep ends>>, or <<>>
    gr_has_data,    \* the day has source rows for every period
    gr_lden,        \* the Lden handler of the boundary: "pending", "written", "nothing"
    gr_read         \* what the uncertainty handler found: "none", "row", "no row"

graceVars == <<gr_subscribers, gr_clock, gr_todo, gr_handler, gr_has_data, gr_lden, gr_read>>

VARIABLES
    cu_pc,        \* the stop of the recorder: "running", "raised", "returned"; "none" before
    cu_source,    \* who stops the pipeline: "callback" or "shutdown"
    cu_recorder,  \* AudioStream._run_loop: "reading" (awaiting a chunk) or "stopped"
    cu_wav_open,  \* WavWriter.wavfile is not None
    cu_chunks,    \* chunks written to the open WAV
    cu_staged,    \* files transcoded to the staging directory
    cu_after      \* chunks written after the stop of the recorder has ended

cleanupVars == <<cu_pc, cu_source, cu_recorder, cu_wav_open, cu_chunks, cu_staged, cu_after>>

VARIABLES
    wt_pc,          \* the watcher of the device document: "none", "idle", "update_parameters", "reset"
    wt_stream,      \* the change events not yet delivered: updated_parameters of each
    wt_change,      \* updated_params of the event being handled
    wt_updated,     \* updated_parameters of the device document, "nulls" after a reset
    wt_parameters,  \* parameters of the device document
    wt_file,        \* the content of config/parameters.json, "missing" when there is none
    wt_flag,        \* MicrophoneDetails.callback_in_progress
    wt_remote,      \* number of remote updates of updated_parameters
    wt_log          \* the effects in order: "reset", "write" and "restart"

watcherVars == <<wt_pc, wt_stream, wt_change, wt_updated, wt_parameters, wt_file, wt_flag,
                 wt_remote, wt_log>>

VARIABLES
    rs_pc,        \* handle_device_disconnected: "none", "begin", "wait_event", "attempt", "sleep", "returned", "raised"
    rs_task,      \* Application.acquisition_task: "running", "returned" or "failed"
    rs_running,   \* the sampler, recorder and scheduler of the manager the application holds run
    rs_detector,  \* the loop of Application.audio_detector runs
    rs_counter,   \* stall_scan_counter of that detector
    rs_event,     \* device_connected_event is set and serial_path is known
    rs_attempts,  \* retry_attempts of the invocation
    rs_failures,  \* restart attempts and acquisition tasks that raised
    rs_calls      \* invocations of the callback

restartVars == <<rs_pc, rs_task, rs_running, rs_detector, rs_counter, rs_event, rs_attempts,
                 rs_failures, rs_calls>>

VARIABLES
    wd_time,       \* the time, in scan intervals
    wd_folder,     \* the staged files the recorder wrote, by minute
    wd_stuck,      \* an older staged file, minute 0, whose upload raises is in the folder
    wd_staged,     \* number of files the recorder has staged
    wd_next_stage, \* the time at which the recorder stages the next file
    wd_next_scan,  \* the time at which the sleep of the detector returns
    wd_last_seen,  \* AudioStallDetector.last_seen_timestamp, <<>> for None
    wd_counter,    \* AudioStallDetector.stall_scan_counter
    wd_invoked,    \* the detector has invoked the callback
    up_pc,         \* AudioTransfer.run: "sleep" or "listed"
    up_until,      \* the time at which the sleep of the uploader returns
    up_files       \* the files process_files listed

watchVars == <<wd_time, wd_folder, wd_stuck, wd_staged, wd_next_stage, wd_next_scan,
               wd_last_seen, wd_counter, wd_invoked, up_pc, up_until, up_files>>

\* The variables of the other units, for each unit.
notValueVars == <<schedVars, ldenVars, uncVars, audioVars, transferVars, supervisorVars, stallVars, startupVars, shutdownVars, laeqVars, graceVars, cleanupVars, watcherVars, restartVars, watchVars>>
notSchedVars == <<valueVars, ldenVars, uncVars, audioVars, transferVars, supervisorVars, stallVars, startupVars, shutdownVars, laeqVars, graceVars, cleanupVars, watcherVars, restartVars, watchVars>>
notLdenVars == <<valueVars, schedVars, uncVars, audioVars, transferVars, supervisorVars, stallVars, startupVars, shutdownVars, laeqVars, graceVars, cleanupVars, watcherVars, restartVars, watchVars>>
notUncVars == <<valueVars, schedVars, ldenVars, audioVars, transferVars, supervisorVars, stallVars, startupVars, shutdownVars, laeqVars, graceVars, cleanupVars, watcherVars, restartVars, watchVars>>
notAudioVars == <<valueVars, schedVars, ldenVars, uncVars, transferVars, supervisorVars, stallVars, startupVars, shutdownVars, laeqVars, graceVars, cleanupVars, watcherVars, restartVars, watchVars>>

notTransferVars == <<valueVars, schedVars, ldenVars, uncVars, audioVars, supervisorVars, stallVars, startupVars, shutdownVars, laeqVars, graceVars, cleanupVars, watcherVars, restartVars, watchVars>>

notSupervisorVars == <<valueVars, schedVars, ldenVars, uncVars, audioVars, transferVars, stallVars, startupVars, shutdownVars, laeqVars, graceVars, cleanupVars, watcherVars, restartVars, watchVars>>

notStallVars == <<valueVars, schedVars, ldenVars, uncVars, audioVars, transferVars, supervisorVars, startupVars, shutdownVars, laeqVars, graceVars, cleanupVars, watcherVars, restartVars, watchVars>>

notStartupVars == <<valueVars, schedVars, ldenVars, uncVars, audioVars, transferVars, supervisorVars, stallVars, shutdownVars, laeqVars, graceVars, cleanupVars, watcherVars, restartVars, watchVars>>

notShutdownVars == <<valueVars, schedVars, ldenVars, uncVars, audioVars, transferVars, supervisorVars, stallVars, startupVars, laeqVars, graceVars, cleanupVars, watcherVars, restartVars, watchVars>>

notLaeqVars == <<valueVars, schedVars, ldenVars, uncVars, audioVars, transferVars, supervisorVars, stallVars, startupVars, shutdownVars, graceVars, cleanupVars, watcherVars, restartVars, watchVars>>

notGraceVars == <<valueVars, schedVars, ldenVars, uncVars, audioVars, transferVars, supervisorVars, stallVars, startupVars, shutdownVars, laeqVars, cleanupVars, watcherVars, restartVars, watchVars>>

notCleanupVars == <<valueVars, schedVars, ldenVars, uncVars, audioVars, transferVars, supervisorVars, stallVars, startupVars, shutdownVars, laeqVars, graceVars, watcherVars, restartVars, watchVars>>

notWatcherVars == <<valueVars, schedVars, ldenVars, uncVars, audioVars, transferVars, supervisorVars, stallVars, startupVars, shutdownVars, laeqVars, graceVars, cleanupVars, restartVars, watchVars>>

notRestartVars == <<valueVars, schedVars, ldenVars, uncVars, audioVars, transferVars, supervisorVars, stallVars, startupVars, shutdownVars, laeqVars, graceVars, cleanupVars, watcherVars, watchVars>>

notWatchVars == <<valueVars, schedVars, ldenVars, uncVars, audioVars, transferVars, supervisorVars, stallVars, startupVars, shutdownVars, laeqVars, graceVars, cleanupVars, watcherVars, restartVars>>

unitVars == <<valueVars, schedVars, ldenVars, uncVars, audioVars, transferVars, supervisorVars, stallVars, startupVars, shutdownVars, laeqVars, graceVars, cleanupVars, watcherVars, restartVars, watchVars>>

vars == <<syncVars, appVars, unitVars>>

\* ------------------------------------------------------------------------
\* Rows, schemas, messages
\* ------------------------------------------------------------------------
\* What the producer stores in row number id: one row per second.
SampleTimestamp(id) == 100 + id
SampleValue(id) == 60 + id

NewRow(id) ==
    [id |-> id, timestamp |-> SampleTimestamp(id), value |-> SampleValue(id),
     is_sent |-> 0, is_aggregated |-> 0]

\* DESCRIBE: the columns of a measurement table, in order.
Columns == <<"id", "timestamp", "value", "is_sent", "is_aggregated">>

\* discover_databases_and_tables: the two schemas cached per table.
SchemaOf(excluded) ==
    SelectSeq(Columns, LAMBDA c : c \notin excluded)
schema_intern == SchemaOf({"is_sent", "is_aggregated"})
reduced_schema == SchemaOf({"id", "is_sent", "is_aggregated"})

\* zlib.compress(pickle.dumps(x)) and its inverse.
Compress(x) == <<"zlib", x>>
Decompress(z) == z[2]

\* The tables that exist in the local store: a table is created by the
\* first insert into it.
ExistingTables == {t \in Tables : Len(localRows[t]) > 0}

\* SELECT <schema_intern> FROM t WHERE is_sent = 0 LIMIT 3600
SelectUnsentBad(t) ==
    LET all == localRows[t]
    IN  [i \in 1..Min(Len(all), FetchLimit) |->
            [c \in 1..Len(schema_intern) |-> all[i][schema_intern[c]]]]
SelectUnsent(t) ==
    LET unsent == SelectSeq(localRows[t], LAMBDA r : r.is_sent = 0)
    IN  [i \in 1..Min(Len(unsent), FetchLimit) |->
            [c \in 1..Len(schema_intern) |-> unsent[i][schema_intern[c]]]]

\* fetch_table_data: position of the id column in schema_intern.
IdIndex ==
    CHOOSE i \in 1..Len(schema_intern) : schema_intern[i] = "id"

InsertMessage(t, results) ==
    [action |-> "insert", table_name |-> t,
     payload |-> Compress([i \in 1..Len(results) |-> WithoutIndex(results[i], IdIndex)])]

PrepareMessage(t) ==
    [action |-> "prepare_collection", table_name |-> t,
     payload |-> Compress(reduced_schema)]

SuccessMessage(t, n) ==
    [action |-> "insert_success", table_name |-> t, records_count |-> n]

\* insert_data: one document per data tuple, keyed by the column names.
Document(column_names, data_tuple) ==
    [c \in {column_names[i] : i \in 1..Min(Len(column_names), Len(data_tuple))} |->
        data_tuple[CHOOSE i \in 1..Len(column_names) : column_names[i] = c]]

Documents(column_names, batch_data) ==
    [i \in 1..Len(batch_data) |-> Document(column_names, batch_data[i])]

\* The documents a remote collection can hold.
AllDocuments ==
    {[timestamp |-> SampleTimestamp(id), value |-> SampleValue(id)] : id \in 1..MaxRows}

\* collection.insert_many(documents): every document gains one copy.
InsertMany(coll, documents) ==
    [d \in DOMAIN coll |->
        Min(MaxCopies, coll[d] + Cardinality({i \in DOMAIN documents : documents[i] = d}))]

\* ------------------------------------------------------------------------
\* RemoteSync: initial state
\* ------------------------------------------------------------------------
NoFetcherState ==
    /\ db_table_map = {}
    /\ last_success = [t \in Tables |-> FALSE]
    /\ pending_ids = [t \in Tables |-> <<>>]
    /\ data_queue = <<>>
    /\ status_queue = <<>>

SyncInit ==
    /\ localRows = [t \in Tables |-> <<>>]
    /\ remote = [t \in Tables |-> [d \in AllDocuments |-> 0]]
    /\ mongodb_connection_event = FALSE
    /\ sync_state = "waiting"
    /\ NoFetcherState
    /\ schema_map = [t \in Tables |-> <<>>]
    /\ tasks = <<>>
    /\ outages = 0
    /\ failures = 0

\* ------------------------------------------------------------------------
\* The producers and the connection to the remote store
\* ------------------------------------------------------------------------
\* DatabaseManagerAcoustic.insert_data / ValueAggregator.insert_aggregated_value:
\* append one row with is_sent = 0, is_aggregated = 0.
InsertRow(t) ==
    /\ UNCHANGED <<appVars, unitVars>>
    /\ Len(localRows[t]) < MaxRows
    /\ localRows' = [localRows EXCEPT ![t] = Append(@, NewRow(Len(@) + 1))]
    /\ UNCHANGED <<remote, mongodb_connection_event, sync_state, db_table_map,
                   last_success, pending_ids, data_queue, status_queue,
                   schema_map, tasks, outages, failures>>

\* ConnectionHandler.connect: the ping succeeded, the event is set.
Connect ==
    /\ UNCHANGED <<appVars, unitVars>>
    /\ ~mongodb_connection_event
    /\ mongodb_connection_event' = TRUE
    /\ UNCHANGED <<localRows, remote, sync_state, db_table_map, last_success,
                   pending_ids, data_queue, status_queue, schema_map, tasks,
                   outages, failures>>

\* ConnectionHandler.monitor_connection: the ping failed, the event is cleared.
ConnectionLost ==
    /\ UNCHANGED <<appVars, unitVars>>
    /\ mongodb_connection_event
    /\ outages < MaxOutages
    /\ mongodb_connection_event' = FALSE
    /\ outages' = outages + 1
    /\ UNCHANGED <<localRows, remote, sync_state, db_table_map, last_success,
                   pending_ids, data_queue, status_queue, schema_map, tasks,
                   failures>>

\* ------------------------------------------------------------------------
\* DataSyncManager.run
\* ------------------------------------------------------------------------
\* discover_databases_and_tables over every table that exists: the messages
\* it enqueues, in table order.
RECURSIVE PrepareMessages(_)
PrepareMessages(ts) ==
    IF ts = {} THEN <<>>
    ELSE LET t == CHOOSE x \in ts : TRUE
         IN  <<PrepareMessage(t)>> \o PrepareMessages(ts \ {t})

\* The event is set and no tasks run: fresh queues, a fresh fetcher and a
\* fresh transfer are created; the fetcher starts with a discovery.
RunStart ==
    /\ UNCHANGED <<appVars, unitVars>>
    /\ sync_state \in {"waiting", "stopping"}
    /\ tasks = <<>>
    /\ mongodb_connection_event
    /\ sync_state' = "running"
    /\ db_table_map' = ExistingTables
    /\ last_success' = [t \in Tables |-> t \in ExistingTables]
    /\ pending_ids' = [t \in Tables |-> <<>>]
    /\ data_queue' = PrepareMessages(ExistingTables)
    /\ status_queue' = <<>>
    /\ schema_map' = [t \in Tables |-> <<>>]
    /\ UNCHANGED <<localRows, remote, mongodb_connection_event, tasks, outages,
                   failures>>

\* The event was cleared: the fetcher and the transfer loop are cancelled,
\* so the fetcher's state and both queues are never read again; the
\* process_data tasks in flight are awaited, not cancelled.
RunCancel ==
    /\ UNCHANGED <<appVars, unitVars>>
    /\ sync_state = "running"
    /\ ~mongodb_connection_event
    /\ sync_state' = "stopping"
    /\ db_table_map' = {}
    /\ last_success' = [t \in Tables |-> FALSE]
    /\ pending_ids' = [t \in Tables |-> <<>>]
    /\ data_queue' = <<>>
    /\ status_queue' = <<>>
    /\ UNCHANGED <<localRows, remote, mongodb_connection_event, schema_map,
                   tasks, outages, failures>>

\* ------------------------------------------------------------------------
\* MySQLDataFetcher
\* ------------------------------------------------------------------------
\* The messages not yet consumed; the queues of the code are unbounded, the
\* model stops producing at MaxQueue.
InFlight == Len(data_queue) + Len(tasks) + Len(status_queue)

\* discover_databases_and_tables, the step for one table (the steps for the
\* other tables are separated from it by awaits on the local store): the
\* table is recorded, its schema is sent and last_success is set.
Rediscover(t) ==
    /\ UNCHANGED <<appVars, unitVars>>
    /\ sync_state = "running"
    /\ t \in ExistingTables
    /\ InFlight < MaxQueue
    /\ db_table_map' = db_table_map \cup {t}
    /\ data_queue' = Append(data_queue, PrepareMessage(t))
    /\ last_success' = [last_success EXCEPT ![t] = TRUE]
    /\ UNCHANGED <<localRows, remote, mongodb_connection_event, sync_state,
                   pending_ids, status_queue, schema_map, tasks, outages,
                   failures>>

\* fetch_table_data: when the last batch of t succeeded and t has unsent
\* rows, their ids become the pending ids, the rows without their id are
\* sent and last_success is cleared.
FetchTable(t) ==
    /\ UNCHANGED <<appVars, unitVars>>
    /\ sync_state = "running"
    /\ t \in db_table_map
    /\ InFlight < MaxQueue
    /\ LET results == SelectUnsent(t)
       IN  IF last_success[t] /\ results # <<>>
           THEN /\ pending_ids' = [pending_ids EXCEPT ![t] =
                                      [i \in 1..Len(results) |-> results[i][IdIndex]]]
                /\ data_queue' = Append(data_queue, InsertMessage(t, results))
                /\ last_success' = [last_success EXCEPT ![t] = FALSE]
           ELSE UNCHANGED <<pending_ids, data_queue, last_success>>
    /\ UNCHANGED <<localRows, remote, mongodb_connection_event, sync_state,
                   db_table_map, status_queue, schema_map, tasks, outages,
                   failures>>

\* An UPDATE that also clears is_sent of the rows outside ids.
MarkSentAndClearOthers(rows, ids) ==
    [i \in 1..Len(rows) |->
        [rows[i] EXCEPT !.is_sent = IF rows[i].id \in Range(ids) THEN 1 ELSE 0]]

\* UPDATE t SET is_sent = 1 WHERE id IN (ids)
MarkSent(rows, ids) ==
    [i \in 1..Len(rows) |->
        IF rows[i].id \in Range(ids) THEN [rows[i] EXCEPT !.is_sent = 1] ELSE rows[i]]

\* process_messages -> handle_insert_success -> mark_success: the pending
\* ids of the table are popped and marked sent, last_success is set.
ProcessMessages ==
    /\ UNCHANGED <<appVars, unitVars>>
    /\ sync_state = "running"
    /\ status_queue # <<>>
    /\ LET message == Head(status_queue)
           t == message.table_name
           ids == pending_ids[t]
       IN  /\ status_queue' = Tail(status_queue)
           /\ IF message.action = "insert_success" /\ t \in db_table_map /\ ids # <<>>
              THEN /\ pending_ids' = [pending_ids EXCEPT ![t] = <<>>]
                   /\ localRows' = [localRows EXCEPT ![t] = MarkSent(@, ids)]
                   /\ last_success' = [last_success EXCEPT ![t] = TRUE]
              ELSE UNCHANGED <<pending_ids, localRows, last_success>>
    /\ UNCHANGED <<remote, mongodb_connection_event, sync_state, db_table_map,
                   data_queue, schema_map, tasks, outages, failures>>

\* ------------------------------------------------------------------------
\* MongoDBDataTransfer
\* ------------------------------------------------------------------------
\* run: the next message becomes a process_data task.
TransferRun ==
    /\ UNCHANGED <<appVars, unitVars>>
    /\ sync_state = "running"
    /\ data_queue # <<>>
    /\ Len(tasks) < num_workers
    /\ tasks' = Append(tasks, Head(data_queue))
    /\ data_queue' = Tail(data_queue)
    /\ UNCHANGED <<localRows, remote, mongodb_connection_event, sync_state,
                   db_table_map, last_success, pending_ids, status_queue,
                   schema_map, outages, failures>>

\* A remote operation may fail while the connection is down, and a bounded
\* number of times while it is up.
MayFail ==
    \/ ~mongodb_connection_event
    \/ failures < MaxFailures

CountFailure ==
    failures' = IF mongodb_connection_event THEN failures + 1 ELSE failures

\* process_data('prepare_collection'): ensure_collection_exists, then
\* create_schema_map.
ProcessPrepare(i) ==
    /\ UNCHANGED <<appVars, unitVars>>
    /\ i \in DOMAIN tasks
    /\ tasks[i].action = "prepare_collection"
    /\ tasks' = WithoutIndex(tasks, i)
    /\ schema_map' = [schema_map EXCEPT ![tasks[i].table_name] = Decompress(tasks[i].payload)]
    /\ UNCHANGED <<localRows, remote, mongodb_connection_event, sync_state,
                   db_table_map, last_success, pending_ids, data_queue,
                   status_queue, outages, failures>>

\* process_data('prepare_collection'): ensure_collection_exists raised, the
\* schema map is not created.
ProcessPrepareFail(i) ==
    /\ UNCHANGED <<appVars, unitVars>>
    /\ i \in DOMAIN tasks
    /\ tasks[i].action = "prepare_collection"
    /\ MayFail
    /\ CountFailure
    /\ tasks' = WithoutIndex(tasks, i)
    /\ UNCHANGED <<localRows, remote, mongodb_connection_event, sync_state,
                   db_table_map, last_success, pending_ids, data_queue,
                   status_queue, schema_map, outages>>

\* insert_data: without a schema map the insertion is aborted; otherwise
\* the documents are inserted and the success is sent.
ProcessInsert(i) ==
    /\ UNCHANGED <<appVars, unitVars>>
    /\ i \in DOMAIN tasks
    /\ tasks[i].action = "insert"
    /\ tasks' = WithoutIndex(tasks, i)
    /\ LET t == tasks[i].table_name
           batch_data == Decompress(tasks[i].payload)
           documents == Documents(schema_map[t], batch_data)
       IN  IF schema_map[t] = <<>>
           THEN UNCHANGED <<remote, status_queue>>
           ELSE /\ remote' = [remote EXCEPT ![t] = InsertMany(@, documents)]
                /\ status_queue' = IF sync_state = "running"
                                   THEN Append(status_queue, SuccessMessage(t, Len(documents)))
                                   ELSE status_queue
    /\ UNCHANGED <<localRows, mongodb_connection_event, sync_state,
                   db_table_map, last_success, pending_ids, data_queue,
                   schema_map, outages, failures>>

\* insert_data: insert_many raised; nothing is inserted, no success is sent.
ProcessInsertFail(i) ==
    /\ UNCHANGED <<appVars, unitVars>>
    /\ i \in DOMAIN tasks
    /\ tasks[i].action = "insert"
    /\ schema_map[tasks[i].table_name] # <<>>
    /\ MayFail
    /\ CountFailure
    /\ tasks' = WithoutIndex(tasks, i)
    /\ UNCHANGED <<localRows, remote, mongodb_connection_event, sync_state,
                   db_table_map, last_success, pending_ids, data_queue,
                   status_queue, schema_map, outages>>

\* ------------------------------------------------------------------------
\* Application: method lookup, clock, rows
\* ------------------------------------------------------------------------
\* The methods each manager class defines. Calling a name a class does not
\* define raises AttributeError.
MySQLConnectionManagerMethods == {"manager_start", "manager_stop"}
AggregationManagerMethods == {"start", "_load_aggregators", "manager_stop"}

HasMethod(methods, name) == name \in methods

Managers == 1..MaxRuns

\* Europe/Bucharest, standard time: seconds east of UTC.
utcoffset == 7200

\* base_time.astimezone(tz): the local wall time of a UTC second.
astimezone(t) == t + utcoffset

\* The level a successful read returns when it is finite.
LevelRead == 60

\* TimeManager._is_interval for '1min': the second of the minute is 0.
IsInterval(t) == t % 60 = 0

\* ValueAggregator.fetch_records: the rows stamped within [start, end].
FetchRecords(rows, start_time, end_time) ==
    SelectSeq(rows, LAMBDA r : r.timestamp >= start_time /\ r.timestamp <= end_time)

\* DatabaseManagerAcoustic.insert_data / insert_aggregated_value: one more
\* row, its id the next AUTO_INCREMENT value.
InsertData(rows, timestamp, value) ==
    Append(rows, [id |-> Len(rows) + 1, timestamp |-> timestamp, value |-> value,
                  is_sent |-> 0, is_aggregated |-> 0])

\* The number of rows of a table stamped t.
RowsAt(rows, t) == Cardinality({i \in DOMAIN rows : rows[i].timestamp = t})

NoStream ==
    [pc |-> "none", i |-> 0, laf_values |-> 0, leq_finite |-> FALSE,
     last_cycle_start |-> 0, cancelled |-> FALSE]

NoScheduler == [running |-> FALSE, last_tick |-> 0]

\* The process as constructed: Application.__init__.
AppStart ==
    /\ app_pc = "start"
    /\ mongo_task_started = FALSE
    /\ mysql_pool = FALSE
    /\ mysql_delay = 1
    /\ pool_failures = 0
    /\ monitor_pc = "off"
    /\ device_present \in BOOLEAN
    /\ device_connected_event = FALSE
    /\ unplugs = 0
    /\ callback_in_progress = FALSE
    /\ cb_pc = "idle"
    /\ audio_detector = FALSE
    /\ acquisition_manager = 0
    /\ acquisition_task = [g \in Managers |-> "none"]
    /\ streams = [g \in Managers |-> NoStream]
    /\ schedulers = [g \in Managers |-> NoScheduler]
    /\ loop_owner = 0
    /\ now = StartSecond
    /\ aggRows = <<>>
    /\ sampled_seconds = {}

\* ------------------------------------------------------------------------
\* Application.start and MySQLConnectionManager.manager_start
\* ------------------------------------------------------------------------
\* main.py 49-56 and 98-99: the remote manager is started as a task, then
\* the pool manager's start() is looked up; the AttributeError of a missing
\* method is caught by the handler at the end of start().
ApplicationStart ==
    /\ app_pc = "start"
    /\ loop_owner = 0
    /\ mongo_task_started' = TRUE
    /\ app_pc' = IF HasMethod(MySQLConnectionManagerMethods, "start")
                 THEN "mysql_connecting"
                 ELSE "start_failed"
    /\ UNCHANGED <<syncVars, unitVars, mysql_pool, mysql_delay, pool_failures, deviceVars,
                   callbackVars, acqVars, loop_owner, now, aggRows, sampled_seconds>>

\* manager_start 39-43: a failed attempt sleeps and doubles the delay.
MySQLAttemptFail ==
    /\ app_pc = "mysql_connecting"
    /\ loop_owner = 0
    /\ pool_failures < MaxPoolFailures
    /\ pool_failures' = pool_failures + 1
    /\ mysql_delay' = Min(mysql_delay * 2, 60)
    /\ UNCHANGED <<syncVars, unitVars, app_pc, mongo_task_started, mysql_pool, deviceVars,
                   callbackVars, acqVars, loop_owner, now, aggRows, sampled_seconds>>

\* manager_start 28-38, then main.py 57-69: the pool is handed to the remote
\* manager, the device monitor is started as a task and start() waits for
\* the device.
MySQLPoolCreated ==
    /\ app_pc = "mysql_connecting"
    /\ loop_owner = 0
    /\ mysql_pool' = TRUE
    /\ monitor_pc' = "waiting"
    /\ app_pc' = "await_device"
    /\ UNCHANGED <<syncVars, unitVars, mongo_task_started, mysql_delay, pool_failures,
                   device_present, device_connected_event, unplugs,
                   callbackVars, acqVars, loop_owner, now, aggRows, sampled_seconds>>

\* ConnectionHandler.connect, run by the remote manager's task.
AppConnect ==
    /\ mongo_task_started
    /\ loop_owner = 0
    /\ Connect

\* main.py 69-96: the device is connected; the sensor object is built, the
\* acquisition manager is created and its start() and the stall watchdog
\* are started as tasks. Building the sensor on a missing port raises and
\* ends start() in its handler.
StartAcquisition ==
    /\ app_pc = "await_device"
    /\ loop_owner = 0
    /\ device_connected_event
    /\ IF device_present
       THEN /\ acquisition_manager' = 1
            /\ acquisition_task' = [acquisition_task EXCEPT ![1] = "created"]
            /\ audio_detector' = TRUE
            /\ app_pc' = "started"
       ELSE /\ app_pc' = "start_failed"
            /\ UNCHANGED <<acquisition_manager, acquisition_task, audio_detector>>
    /\ UNCHANGED <<syncVars, unitVars, mongo_task_started, mysql_pool, mysql_delay,
                   pool_failures, deviceVars, callback_in_progress, cb_pc,
                   streams, schedulers, loop_owner, now, aggRows, sampled_seconds>>

\* ------------------------------------------------------------------------
\* The device and MonitorStatus
\* ------------------------------------------------------------------------
DevicePlug ==
    /\ ~device_present
    /\ device_present' = TRUE
    /\ UNCHANGED <<syncVars, unitVars, startVars, monitor_pc, device_connected_event, unplugs,
                   callbackVars, acqVars, loop_owner, now, aggRows, sampled_seconds>>

DeviceUnplug ==
    /\ device_present
    /\ unplugs < MaxUnplugs
    /\ acquisition_manager < MaxRuns
    /\ device_present' = FALSE
    /\ unplugs' = unplugs + 1
    /\ UNCHANGED <<syncVars, unitVars, startVars, monitor_pc, device_connected_event,
                   callbackVars, acqVars, loop_owner, now, aggRows, sampled_seconds>>

\* check_serial_device 57-67: the port is found, the event is set.
MonitorFindDevice ==
    /\ monitor_pc = "waiting"
    /\ loop_owner = 0
    /\ device_present
    /\ device_connected_event' = TRUE
    /\ monitor_pc' = "monitoring"
    /\ UNCHANGED <<syncVars, unitVars, startVars, device_present, unplugs, callbackVars,
                   acqVars, loop_owner, now, aggRows, sampled_seconds>>

\* check_serial_device 70-79: the port is gone; the event is cleared and
\* the callback is started as a task unless one is in progress.
MonitorDetectLoss ==
    /\ monitor_pc = "monitoring"
    /\ loop_owner = 0
    /\ ~device_present
    /\ device_connected_event' = FALSE
    /\ monitor_pc' = "waiting"
    /\ IF ~callback_in_progress
       THEN callback_in_progress' = TRUE /\ cb_pc' = "begin"
       ELSE UNCHANGED <<callback_in_progress, cb_pc>>
    /\ UNCHANGED <<syncVars, unitVars, startVars, device_present, unplugs, audio_detector,
                   acqVars, loop_owner, now, aggRows, sampled_seconds>>

\* execute_scheduled_reset 127-143: unless a callback is in progress the cron
\* job sets the flag and awaits the callback, which runs at once up to its
\* first suspension (main.py 108-116). Before start() has set
\* audio_detector_task the attribute lookup raises and the flag is reset.
ScheduledReset ==
    /\ monitor_pc # "off"
    /\ loop_owner = 0
    /\ ~callback_in_progress
    /\ acquisition_manager < MaxRuns
    /\ IF app_pc = "started"
       THEN /\ callback_in_progress' = TRUE
            /\ audio_detector' = FALSE
            /\ cb_pc' = "stop_acquisition"
       ELSE UNCHANGED callbackVars
    /\ UNCHANGED <<syncVars, unitVars, startVars, deviceVars, acqVars,
                   loop_owner, now, aggRows, sampled_seconds>>

\* ------------------------------------------------------------------------
\* Application.handle_device_disconnected
\* ------------------------------------------------------------------------
\* main.py 108-119: the stall watchdog is stopped and its task cancelled.
\* audio_detector_task is an attribute only once start() has reached line
\* 92; before that the lookup raises, the callback ends and
\* MonitorStatus.handle_callback resets the flag.
CallbackBegin ==
    /\ cb_pc = "begin"
    /\ loop_owner = 0
    /\ IF app_pc = "started"
       THEN /\ audio_detector' = FALSE
            /\ cb_pc' = "stop_acquisition"
            /\ UNCHANGED callback_in_progress
       ELSE /\ cb_pc' = "idle"
            /\ callback_in_progress' = FALSE
            /\ UNCHANGED audio_detector
    /\ UNCHANGED <<syncVars, unitVars, startVars, deviceVars, acqVars, loop_owner, now,
                   aggRows, sampled_seconds>>

\* AggregationManager.manager_stop 47-58: the scheduler's tasks are cancelled.
StoppedScheduler(sch) == [sch EXCEPT !.running = FALSE]

\* AcousticStream.cleanup 140-148: the stream task is cancelled and awaited;
\* a stream that is suspended ends there.
CleanedUpStream(st) ==
    IF st.pc \in {"aligning", "sleeping", "inserting"}
    THEN [st EXCEPT !.pc = "done", !.cancelled = TRUE]
    ELSE st

\* main.py 121-134 with AcquisitionManager.stop 147-154: the task of the
\* manager's start() is cancelled, then stop() is awaited. stop() first calls
\* agmanager.stop(): with no aggregation manager yet, or with a class that
\* does not define stop, this raises before cleanup_streams() and the error
\* is caught and logged by the callback.
CallbackStopAcquisition ==
    /\ cb_pc = "stop_acquisition"
    /\ loop_owner = 0
    /\ LET g == acquisition_manager
           started == acquisition_task[g] = "done"
       IN  /\ acquisition_task' =
                   [acquisition_task EXCEPT ![g] = IF @ = "created" THEN "cancelled" ELSE @]
           /\ IF started /\ HasMethod(AggregationManagerMethods, "stop")
              THEN /\ schedulers' = [schedulers EXCEPT ![g] = StoppedScheduler(@)]
                   /\ streams' = [streams EXCEPT ![g] = CleanedUpStream(@)]
              ELSE UNCHANGED <<schedulers, streams>>
    /\ cb_pc' = "await_device"
    /\ UNCHANGED <<syncVars, unitVars, startVars, deviceVars, callback_in_progress,
                   audio_detector, acquisition_manager, loop_owner, now, aggRows,
                   sampled_seconds>>

\* main.py 136-165: once the device is connected again a new sensor object,
\* a new acquisition manager and a new stall watchdog are created and
\* started; the callback returns and handle_callback resets the flag. While
\* building the sensor raises, the attempt is repeated every 5 s.
CallbackRestart ==
    /\ cb_pc = "await_device"
    /\ loop_owner = 0
    /\ device_connected_event
    /\ device_present
    /\ acquisition_manager < MaxRuns
    /\ acquisition_manager' = acquisition_manager + 1
    /\ acquisition_task' = [acquisition_task EXCEPT ![acquisition_manager + 1] = "created"]
    /\ audio_detector' = TRUE
    /\ cb_pc' = "idle"
    /\ callback_in_progress' = FALSE
    /\ UNCHANGED <<syncVars, unitVars, startVars, deviceVars, streams, schedulers,
                   loop_owner, now, aggRows, sampled_seconds>>

\* ------------------------------------------------------------------------
\* AcquisitionManager.start
\* ------------------------------------------------------------------------
\* acquisition_manager.py 45-65 with AggregationManager.start and
\* AcousticStream.start: the device is configured, the scheduler task is
\* created and the stream task is created, which first sleeps to the next
\* whole second. On a missing device the configuration raises and nothing
\* is started.
AcquisitionManagerStart(g) ==
    /\ acquisition_task[g] = "created"
    /\ loop_owner = 0
    /\ IF device_present
       THEN /\ acquisition_task' = [acquisition_task EXCEPT ![g] = "done"]
            /\ schedulers' = [schedulers EXCEPT ![g] = [running |-> TRUE, last_tick |-> 0]]
            /\ streams' = [streams EXCEPT ![g] =
                               [NoStream EXCEPT !.pc = "aligning",
                                                !.last_cycle_start = now + 1]]
       ELSE /\ acquisition_task' = [acquisition_task EXCEPT ![g] = "failed"]
            /\ UNCHANGED <<schedulers, streams>>
    /\ UNCHANGED <<syncVars, unitVars, startVars, deviceVars, callbackVars,
                   acquisition_manager, loop_owner, now, aggRows, sampled_seconds>>

\* ------------------------------------------------------------------------
\* AcousticStream._run_loop
\*
\* A coroutine runs from one await to the next without giving up the event
\* loop: loop_owner = g while stream g runs between two awaits, and every
\* other task runs only while loop_owner = 0.
\* ------------------------------------------------------------------------
\* Lines 72-75: the head of a cycle for the second base_time.
BeginCycle(st, base_time) ==
    [st EXCEPT !.pc = "sampling", !.i = 0, !.laf_values = 0,
               !.leq_finite = FALSE, !.last_cycle_start = base_time]

\* Lines 67-75: the sleep to the next whole second returns; the first cycle
\* is stamped with the current second. (While the stream is aligning,
\* last_cycle_start holds the second the sleep ends at.)
StreamAligned(g) ==
    /\ streams[g].pc = "aligning"
    /\ loop_owner = 0
    /\ now >= streams[g].last_cycle_start
    /\ streams' = [streams EXCEPT ![g] = BeginCycle(@, now)]
    /\ loop_owner' = g
    /\ UNCHANGED <<syncVars, unitVars, startVars, deviceVars, callbackVars,
                   acquisition_manager, acquisition_task, schedulers, now,
                   aggRows, sampled_seconds>>

\* Lines 78-89: both reads succeed, the values are kept and the loop sleeps
\* to the next sample instant.
ReadOk(g, finite) ==
    /\ loop_owner = g
    /\ streams[g].pc = "sampling"
    /\ streams[g].i < samples_per_second
    /\ streams' = [streams EXCEPT ![g] =
                       [@ EXCEPT !.pc = "sleeping",
                                 !.laf_values = @ + 1,
                                 !.leq_finite = @ \/ finite]]
    /\ loop_owner' = 0
    /\ UNCHANGED <<syncVars, unitVars, startVars, deviceVars, callbackVars,
                   acquisition_manager, acquisition_task, schedulers, now,
                   aggRows, sampled_seconds>>

\* Lines 78-85: a read raises; the error is logged and `continue` goes to
\* the next sample without sleeping.
ReadFail(g) ==
    /\ loop_owner = g
    /\ streams[g].pc = "sampling"
    /\ streams[g].i < samples_per_second
    /\ streams' = [streams EXCEPT ![g] = [@ EXCEPT !.i = @ + 1]]
    /\ UNCHANGED <<syncVars, unitVars, startVars, deviceVars, callbackVars,
                   acquisition_manager, acquisition_task, schedulers, loop_owner,
                   now, aggRows, sampled_seconds>>

\* Line 89: the sleep returns at its target; the target of the last sample
\* of a cycle is the end of the second.
SleepReturn(g) ==
    /\ streams[g].pc = "sleeping"
    /\ loop_owner = 0
    /\ streams[g].i + 1 = samples_per_second => now >= streams[g].last_cycle_start + 1
    /\ streams' = [streams EXCEPT ![g] = [@ EXCEPT !.pc = "sampling", !.i = @ + 1]]
    /\ loop_owner' = g
    /\ UNCHANGED <<syncVars, unitVars, startVars, deviceVars, callbackVars,
                   acquisition_manager, acquisition_task, schedulers, now,
                   aggRows, sampled_seconds>>

\* calculate_laeq and the validation of lines 115-118: the values of the
\* cycle that pass the validation; none when no reading was finite.
CycleValue(st) == IF st.leq_finite THEN <<LevelRead>> ELSE <<>>

\* Lines 91-118 and 133: after the samples. An incomplete set is skipped
\* with `continue`, which starts the cycle of the same second again; a
\* value that fails the validation is skipped and the next second begins;
\* otherwise the loop awaits the insertion.
EndOfReads(g) ==
    /\ loop_owner = g
    /\ streams[g].pc = "sampling"
    /\ streams[g].i = samples_per_second
    /\ LET st == streams[g]
       IN  IF st.laf_values < samples_per_second
           THEN /\ streams' = [streams EXCEPT ![g] = BeginCycle(st, st.last_cycle_start)]
                /\ UNCHANGED <<loop_owner, sampled_seconds>>
           ELSE IF CycleValue(st) = <<>>
           THEN /\ streams' = [streams EXCEPT ![g] = BeginCycle(st, st.last_cycle_start + 1)]
                /\ sampled_seconds' = sampled_seconds \cup {st.last_cycle_start}
                /\ UNCHANGED loop_owner
           ELSE /\ streams' = [streams EXCEPT ![g] = [st EXCEPT !.pc = "inserting"]]
                /\ loop_owner' = 0
                /\ UNCHANGED sampled_seconds
    /\ UNCHANGED <<syncVars, unitVars, startVars, deviceVars, callbackVars,
                   acquisition_manager, acquisition_task, schedulers, now, aggRows>>

\* Lines 97-99 and 124, 133: the row of the second is inserted with the
\* local time of base_time and the next second begins.
InsertDone(g) ==
    /\ streams[g].pc = "inserting"
    /\ loop_owner = 0
    /\ LET st == streams[g]
       IN  /\ localRows' = [localRows EXCEPT !["LAeq"] =
                   InsertData(@, astimezone(st.last_cycle_start), CycleValue(st)[1])]
           /\ streams' = [streams EXCEPT ![g] = BeginCycle(st, st.last_cycle_start + 1)]
           /\ sampled_seconds' = sampled_seconds \cup {st.last_cycle_start}
    /\ loop_owner' = g
    /\ UNCHANGED <<remote, mongodb_connection_event, sync_state, db_table_map,
                   last_success, pending_ids, data_queue, status_queue, schema_map,
                   tasks, outages, failures, unitVars, startVars, deviceVars, callbackVars,
                   acquisition_manager, acquisition_task, schedulers, now, aggRows>>

\* Lines 124 and 130-133: the insertion raises; the error is logged and the
\* next second begins.
InsertFail(g) ==
    /\ streams[g].pc = "inserting"
    /\ loop_owner = 0
    /\ LET st == streams[g]
       IN  /\ streams' = [streams EXCEPT ![g] = BeginCycle(st, st.last_cycle_start + 1)]
           /\ sampled_seconds' = sampled_seconds \cup {st.last_cycle_start}
    /\ loop_owner' = g
    /\ UNCHANGED <<syncVars, unitVars, startVars, deviceVars, callbackVars,
                   acquisition_manager, acquisition_task, schedulers, now, aggRows>>

\* ------------------------------------------------------------------------
\* TimeManager and the LAeq aggregator, the wall clock
\* ------------------------------------------------------------------------
\* TimeManager.start 19-21 and _tick, with LAeqAggregator.aggregate_data for
\* the 1 min interval: once per second the scheduler looks at the clock; on
\* a boundary the rows of the last minute are fetched and, if there are
\* any, one row stamped with the start of the window is written.
SchedulerTick(g) ==
    /\ schedulers[g].running
    /\ loop_owner = 0
    /\ schedulers[g].last_tick < now
    /\ schedulers' = [schedulers EXCEPT ![g] = [@ EXCEPT !.last_tick = now]]
    /\ LET end_time == astimezone(now)
           start_time == end_time - 60
       IN  aggRows' = IF IsInterval(end_time)
                         /\ FetchRecords(localRows["LAeq"], start_time, end_time) # <<>>
                      THEN InsertData(aggRows, start_time, LevelRead)
                      ELSE aggRows
    /\ UNCHANGED <<syncVars, unitVars, startVars, deviceVars, callbackVars,
                   acquisition_manager, acquisition_task, streams, loop_owner, now,
                   sampled_seconds>>

\* One second passes.
Tick ==
    /\ now < StartSecond + MaxTicks
    /\ now' = now + 1
    /\ UNCHANGED <<syncVars, unitVars, startVars, deviceVars, callbackVars, acqVars,
                   loop_owner, aggRows, sampled_seconds>>

\* ------------------------------------------------------------------------
\* Floating-point values and the value the sampler stores
\*
\* A float is NaN, +inf, -inf or a finite number, kept in hundredths of a
\* dB. The finite readings of the model lie more than 160 dB apart, so in
\* double precision the energy of a smaller one is absorbed by the energy of
\* a larger one when they are added.
\* ------------------------------------------------------------------------
Fin(v) == [k |-> "fin", v |-> v]
NaN == [k |-> "nan", v |-> 0]
PosInf == [k |-> "+inf", v |-> 0]
NegInf == [k |-> "-inf", v |-> 0]
None == [k |-> "none", v |-> 0]

FiniteReadings == {Fin(0 - 400000), Fin(6000), Fin(200000), Fin(400000)}
Readings == FiniteReadings \cup {NaN, PosInf, NegInf}

isfinite(x) == x.k = "fin"
isnan(x) == x.k = "nan"
isinf(x) == x.k \in {"+inf", "-inf"}

\* x < y on floats: false whenever one side is NaN.
Less(x, y) ==
    /\ ~isnan(x) /\ ~isnan(y)
    /\ \/ x.k = "-inf" /\ y.k # "-inf"
       \/ x.k = "fin" /\ y.k = "+inf"
       \/ x.k = "fin" /\ y.k = "fin" /\ x.v < y.v

\* Python's min and max: the first element, replaced by each later element
\* that compares smaller (larger).
RECURSIVE PyMinFrom(_, _, _)
PyMinFrom(s, i, best) ==
    IF i > Len(s) THEN best
    ELSE PyMinFrom(s, i + 1, IF Less(s[i], best) THEN s[i] ELSE best)

PyMin(s) == PyMinFrom(s, 2, s[1])

RECURSIVE PyMaxFrom(_, _, _)
PyMaxFrom(s, i, best) ==
    IF i > Len(s) THEN best
    ELSE PyMaxFrom(s, i + 1, IF Less(best, s[i]) THEN s[i] ELSE best)

PyMax(s) == PyMaxFrom(s, 2, s[1])

\* 10 ** (level / 10) in double precision overflows to inf above 3082.5 dB
\* and underflows to 0 below -3240 dB.
EnergyOverflows(x) == x.v > 308250
EnergyUnderflows(x) == x.v < 0 - 324000

\* 10 * log10(n / c) in hundredths of a dB, for the ratios of small counts.
TenLog10Ratio(n, c) ==
    CASE n = c -> 0
      [] n = 2 * c -> 301
      [] n = 3 * c -> 477
      [] n = 4 * c -> 602
      [] 2 * n = 3 * c -> 176
      [] 3 * n = 4 * c -> 125
      [] 101 * n = 200 * c -> 297
      [] 159 * n = 6000 * c -> 1577
      [] 160 * n = 6100 * c -> 1581
      [] 259 * n = 6100 * c -> 1372

\* 10 ** ((x - top) / 10) in hundredths, for a level x below the level top:
\* below 160 dB under top the energy is lost in the double-precision sum.
RelEnergy(x, top) ==
    CASE top.v - x.v = 0 -> 100
      [] top.v - x.v = 1000 -> 10
      [] top.v - x.v = 2000 -> 1
      [] top.v - x.v >= 16000 -> 0

\* The highest of a non-empty sequence of finite levels.
TopLevel(levels) ==
    CHOOSE x \in {levels[i] : i \in DOMAIN levels} :
        \A i \in DOMAIN levels : levels[i].v <= x.v

\* np.sum(10 ** (levels / 10)), in hundredths of the energy of top: the sum,
\* over the distinct levels, of their energy times their number.
RECURSIVE RelEnergyOver(_, _, _)
RelEnergyOver(values, levels, top) ==
    IF values = {} THEN 0
    ELSE LET x == CHOOSE x \in values : TRUE
         IN  RelEnergy(x, top) * Cardinality({i \in DOMAIN levels : levels[i] = x})
                 + RelEnergyOver(values \ {x}, levels, top)

RelEnergySum(levels, top) == RelEnergyOver({levels[i] : i \in DOMAIN levels}, levels, top)

\* average.py 3-25: the non-finite levels are dropped; with none left the
\* result is None; otherwise 10 * log10(sum(10 ** (levels / 10)) / T),
\* rounded to 2 decimals.
calculate_laeq(sound_levels) ==
    LET levels == SelectSeq(sound_levels, isfinite)
        T == Len(levels)
        top == TopLevel(levels)
    IN  IF T = 0 THEN None
        ELSE IF EnergyOverflows(top) THEN PosInf
        ELSE IF EnergyUnderflows(top) THEN NegInf
        ELSE Fin(top.v - TenLog10Ratio(100 * T, RelEnergySum(levels, top)))

\* The parameters of AcousticSequences, in the order of the configuration.
acoustic_parameters == <<"LAeq", "LAF", "LAFmin", "LAFmax">>

\* acoustic_stream.py 103-111: the value of a parameter for one cycle.
ParamValue(p, laf_values, leq_values) ==
    CASE p = "LAeq" -> calculate_laeq(leq_values)
      [] p = "LAF" -> laf_values[1]
      [] p = "LAFmin" -> PyMin(laf_values)
      [] p = "LAFmax" -> PyMax(laf_values)

\* acoustic_stream.py 116: the value is a number and neither NaN nor
\* infinite.
IsValidValue(value) == value # None /\ ~isnan(value) /\ ~isinf(value)

\* No cycle is being evaluated.
ValueIdle ==
    /\ laf_readings = <<>>
    /\ leq_readings = <<>>
    /\ param = 0
    /\ value_rows = <<>>

\* A cycle in which every read returned, whatever the readings; the loop
\* over the parameters is at its first parameter.
ValueStart ==
    /\ laf_readings \in [1..samples_per_second -> Readings]
    /\ leq_readings \in [1..samples_per_second -> Readings]
    /\ param = 1
    /\ value_rows = <<>>

\* acoustic_stream.py 103-124: the value of the parameter is computed,
\* validated and inserted rounded to 2 decimals; the loop goes on.
StoreCycleValue ==
    /\ param \in DOMAIN acoustic_parameters
    /\ LET value == ParamValue(acoustic_parameters[param], laf_readings, leq_readings)
       IN  /\ IsValidValue(value)
           /\ value_rows' = Append(value_rows, [param |-> acoustic_parameters[param],
                                                 value |-> value])
    /\ param' = param + 1
    /\ UNCHANGED <<syncVars, appVars, notValueVars, laf_readings, leq_readings>>

\* acoustic_stream.py 115-118: the value fails the validation; nothing is
\* inserted and the loop goes to the next parameter.
SkipCycleValue ==
    /\ param \in DOMAIN acoustic_parameters
    /\ ~IsValidValue(ParamValue(acoustic_parameters[param], laf_readings, leq_readings))
    /\ param' = param + 1
    /\ UNCHANGED <<syncVars, appVars, notValueVars, laf_readings, leq_readings, value_rows>>

\* ------------------------------------------------------------------------
\* The interval scheduler and its subscribers
\* (aggregation/time_manager.py, aggregation/acoustic_aggregator)
\* ------------------------------------------------------------------------
\* The clock counts units of 1/Res second.
Res == 2

\* An await returns at most MaxLate units after the earliest moment it can.
MaxLate == 1

\* The sampler's insert of a second's row completes at most
\* MaxInsertLatency units after the end of that second.
MaxInsertLatency == 1

\* The ticks of the scheduler in a behaviour.
MaxSchedTicks == 5

\* The awaits of the scheduler that return late in a behaviour.
MaxLateReturns == 1

\* The handlers that raise in a behaviour.
MaxHandlerErrors == 1

\* asyncio.sleep(1) in TimeManager.start.
TickSleep == 1

\* asyncio.sleep(20) in LAeqAggregator.aggregate_lden.
LdenGrace == 20

\* TimeManager.__init__: the intervals, in the order of the dictionary.
Intervals == <<"1min", "5min", "15min", "30min", "1h", "24h">>

\* The timedelta of each interval (_notify_subscribers), in seconds.
IntervalLength(interval) ==
    CASE interval = "1min" -> 60
      [] interval = "5min" -> 300
      [] interval = "15min" -> 900
      [] interval = "30min" -> 1800
      [] interval = "1h" -> 3600
      [] interval = "24h" -> 86400

\* The fields of a datetime; the clock starts at midnight of day 0.
second_of(t) == (t \div Res) % 60
minute_of(t) == ((t \div Res) \div 60) % 60
hour_of(t) == ((t \div Res) \div 3600) % 24

\* current_time.replace(microsecond=0), in seconds.
Truncate(t) == t \div Res

\* TimeManager._is_interval.
_is_interval(t, interval) ==
    CASE interval = "1min" -> second_of(t) = 0
      [] interval = "5min" -> minute_of(t) % 5 = 0 /\ second_of(t) = 0
      [] interval = "15min" -> minute_of(t) % 15 = 0 /\ second_of(t) = 0
      [] interval = "30min" -> minute_of(t) % 30 = 0 /\ second_of(t) = 0
      [] interval = "1h" -> minute_of(t) = 0 /\ second_of(t) = 0
      [] interval = "24h" -> hour_of(t) = 0 /\ minute_of(t) = 0 /\ second_of(t) = 0

\* TimeManager.subscribe as the aggregators call it when they are loaded:
\* LAeqAggregator for every interval, then LAFAggregator for 1min and 24h.
subscribers ==
    [interval \in {Intervals[i] : i \in DOMAIN Intervals} |->
        IF interval \in {"1min", "24h"} THEN <<"LAeq", "LAF">> ELSE <<"LAeq">>]

\* TimeManager._tick: the notifications of a tick, in the order of the two
\* loops (intervals, then the subscribers of the interval).
RECURSIVE DueFrom(_, _)
DueFrom(t, i) ==
    IF i > Len(Intervals) THEN <<>>
    ELSE (IF _is_interval(t, Intervals[i])
          THEN [k \in DOMAIN subscribers[Intervals[i]] |->
                    [interval |-> Intervals[i],
                     subscriber |-> subscribers[Intervals[i]][k]]]
          ELSE <<>>) \o DueFrom(t, i + 1)

Due(t) == DueFrom(t, 1)

\* A loop that an error leaves: nobody else is notified in that tick.
notify_rest_aborting(todo, raised) == IF raised THEN <<>> ELSE Tail(todo)

\* _notify_subscribers 43-49: the try/except is inside the loop, so after a
\* handler returned or raised the loop goes on with the next subscriber.
notify_rest(todo, raised) == Tail(todo)

\* An end time rounded to the next second rather than truncated.
end_time_rounded_up(t) == (t + Res - 1) \div Res

\* _notify_subscribers 31: end_time = current_time.replace(microsecond=0).
end_time_of(t) == Truncate(t)

\* _notify_subscribers 32-39.
start_time_of(t, interval) == end_time_of(t) - IntervalLength(interval)

\* LAeqAggregator.notifyAboutInterval: the table a level reads.
SourceTable(interval) ==
    CASE interval = "1min" -> "LAeq"
      [] interval = "24h" -> "LAeq1h"
      [] OTHER -> "LAeq1min"

\* LAeqAggregator.notifyAboutInterval: the table a level writes.
TargetTable(interval) ==
    CASE interval = "1min" -> "LAeq1min"
      [] interval = "5min" -> "LAeq5min"
      [] interval = "15min" -> "LAeq15min"
      [] interval = "30min" -> "LAeq30min"
      [] interval = "1h" -> "LAeq1h"
      [] interval = "24h" -> "LAeq24h"

LAeqTables == {"LAeq", "LAeq1min", "LAeq5min", "LAeq15min", "LAeq30min", "LAeq1h", "LAeq24h"}

\* The seconds between two rows of a table.
Period(table) ==
    CASE table = "LAeq" -> 1
      [] table = "LAeq1min" -> 60
      [] table = "LAeq5min" -> 300
      [] table = "LAeq15min" -> 900
      [] table = "LAeq30min" -> 1800
      [] table = "LAeq1h" -> 3600
      [] table = "LAeq24h" -> 86400

\* The longest window read from a table.
Window(table) ==
    CASE table = "LAeq" -> 60
      [] table = "LAeq1min" -> 3600
      [] table = "LAeq1h" -> 86400
      [] OTHER -> 0

\* ValueAggregator.fetch_records: timestamp >= start AND timestamp <= end.
fetch_records(rows, start_time, end_time) ==
    {ts \in rows : ts >= start_time /\ ts <= end_time}

\* The time a handler sleeps: aggregate_lden's 20 s in the 24h LAeq handler.
HandlerSleep(subscriber, interval) ==
    IF subscriber = "LAeq" /\ interval = "24h" THEN LdenGrace * Res ELSE 0

\* The rows the earlier ticks and cycles left in a table when the second s
\* begins: one row per finished period within the longest window read.
InitialRows(table, s) ==
    {ts \in (IF s > Window(table) THEN s - Window(table) ELSE 0)..s :
        ts % Period(table) = 0 /\ ts + Period(table) <= s}

\* The seconds at which a behaviour of the scheduler starts: two seconds
\* before a minute that is no other boundary, and before midnight.
SchedStartSeconds == {58, 86398}

\* No scheduler task exists.
SchedIdle ==
    /\ clock = 0
    /\ tm_ticks = 0
    /\ tm_pc = "none"
    /\ tm_until = 0
    /\ current_time = 0
    /\ tm_todo = <<>>
    /\ last_examined = 0
    /\ missed = {}
    /\ late_returns = 0
    /\ invocations = <<>>
    /\ handler_errors = 0
    /\ agg_tables = [t \in LAeqTables |-> {}]
    /\ sampler_second = 0

\* AggregationManager.start: the scheduler task was created at some moment
\* of a second; the sampler is running and wrote the rows of earlier seconds.
SchedStart ==
    /\ \E s \in SchedStartSeconds, phase \in 0..(Res - 1) :
        /\ clock = s * Res + phase
        /\ agg_tables = [t \in LAeqTables |-> InitialRows(t, s)]
        /\ sampler_second = s
    /\ tm_ticks = 0
    /\ tm_pc = "sleep"
    /\ tm_until = clock
    /\ current_time = clock
    /\ tm_todo = <<>>
    /\ last_examined = Truncate(clock) - 1
    /\ missed = {}
    /\ late_returns = 0
    /\ invocations = <<>>
    /\ handler_errors = 0

\* Time passes: one unit, unless an await of the scheduler or the insert of
\* the sampler would be later than it can be. An await whose moment has
\* come and that lets time pass returns late.
Advance ==
    /\ tm_pc \in {"sleep", "handler"}
    /\ clock < tm_until + MaxLate
    /\ clock < (sampler_second + 1) * Res + MaxInsertLatency
    /\ clock' = clock + 1
    /\ IF clock >= tm_until
       THEN /\ late_returns < MaxLateReturns
            /\ late_returns' = late_returns + 1
       ELSE UNCHANGED late_returns
    /\ UNCHANGED <<syncVars, appVars, notSchedVars, tm_ticks, tm_pc, tm_until,
                   current_time, tm_todo, last_examined, missed, invocations,
                   handler_errors, agg_tables, sampler_second>>

\* acoustic_stream.py 88-133: the cycle of a second ended, the value is
\* computed and inserted with the second as timestamp.
SamplerInsert ==
    /\ clock >= (sampler_second + 1) * Res
    /\ agg_tables' = [agg_tables EXCEPT !["LAeq"] = @ \cup {sampler_second}]
    /\ sampler_second' = sampler_second + 1
    /\ UNCHANGED <<syncVars, appVars, notSchedVars, clock, tm_ticks, tm_pc, tm_until,
                   current_time, tm_todo, last_examined, missed, late_returns, invocations,
                   handler_errors>>

\* TimeManager.start 19-21 and _tick 23-28: the sleep returned; the tick
\* reads the clock and finds the intervals whose boundary this second is.
\* With nothing to notify the loop sleeps again.
TmTick ==
    /\ tm_pc = "sleep"
    /\ clock >= tm_until
    /\ tm_ticks < MaxSchedTicks
    /\ tm_ticks' = tm_ticks + 1
    /\ current_time' = clock
    /\ last_examined' = Truncate(clock)
    /\ missed' = IF tm_ticks = 0 THEN missed
               ELSE missed \cup ((last_examined + 1)..(Truncate(clock) - 1))
    /\ tm_todo' = Due(clock)
    /\ IF Due(clock) = <<>>
       THEN /\ tm_pc' = "sleep"
            /\ tm_until' = clock + TickSleep * Res
       ELSE /\ tm_pc' = "notify"
            /\ UNCHANGED tm_until
    /\ UNCHANGED <<syncVars, appVars, notSchedVars, clock, late_returns,
                   invocations, handler_errors, agg_tables, sampler_second>>

\* _notify_subscribers 30-47 and notifyAboutInterval: the next subscriber is
\* awaited. The LAeq handler fetches the window from its source table and,
\* unless it raises or found nothing, inserts one row stamped start_time.
TmInvoke(raised) ==
    /\ tm_pc = "notify"
    /\ raised => handler_errors < MaxHandlerErrors
    /\ LET interval == Head(tm_todo).interval
           subscriber == Head(tm_todo).subscriber
           start_time == start_time_of(current_time, interval)
           end_time == end_time_of(current_time)
           fetched == IF subscriber = "LAeq"
                      THEN fetch_records(agg_tables[SourceTable(interval)],
                                         start_time, end_time)
                      ELSE {}
       IN  /\ invocations' = Append(invocations,
                  [interval |-> interval, subscriber |-> subscriber,
                   start_time |-> start_time, end_time |-> end_time,
                   tick |-> current_time, at |-> clock,
                   fetched |-> fetched, raised |-> raised])
           /\ agg_tables' =
                  IF subscriber = "LAeq" /\ ~raised /\ fetched # {}
                  THEN [agg_tables EXCEPT ![TargetTable(interval)] = @ \cup {start_time}]
                  ELSE agg_tables
           /\ tm_until' = clock + HandlerSleep(subscriber, interval)
    /\ handler_errors' = handler_errors + (IF raised THEN 1 ELSE 0)
    /\ tm_pc' = "handler"
    /\ UNCHANGED <<syncVars, appVars, notSchedVars, clock, tm_ticks, current_time,
                   tm_todo, last_examined, missed, late_returns, sampler_second>>

\* _notify_subscribers 43-49 and TimeManager.start 21: the handler returned
\* or raised; the next subscriber follows, or the sleep of one second.
TmHandlerDone ==
    /\ tm_pc = "handler"
    /\ clock >= tm_until
    /\ LET rest == notify_rest(tm_todo, invocations[Len(invocations)].raised)
       IN  /\ tm_todo' = rest
           /\ IF rest = <<>>
              THEN /\ tm_pc' = "sleep"
                   /\ tm_until' = clock + TickSleep * Res
              ELSE /\ tm_pc' = "notify"
                   /\ UNCHANGED tm_until
    /\ UNCHANGED <<syncVars, appVars, notSchedVars, clock, tm_ticks, current_time,
                   last_examined, missed, late_returns, invocations, handler_errors,
                   agg_tables, sampler_second>>

\* ------------------------------------------------------------------------
\* The day-evening-night level (laeq_aggregator.py, aggregate_lden)
\* ------------------------------------------------------------------------
\* The tables aggregate_lden reads.
LdenSources == {"LAeq1h", "LAeq15min", "LAeq30min"}

\* The start_time of the 24h notification: midnight of the day after day 0.
LdenStartTime == IntervalLength("24h")

\* start_time.replace(hour=h, minute=m): the second is kept.
replace_hm(t, h, m) == (t \div 86400) * 86400 + h * 3600 + m * 60 + (t % 60)

\* start_time.replace(hour=h, minute=m, second=0).
replace_hms(t, h, m) == (t \div 86400) * 86400 + h * 3600 + m * 60

\* The levels of the rows of one table on one day, in hundredths of dB.
SourceLevels == {4000, 6000}

\* The timestamps a source table may have rows at: just outside and just
\* inside the range aggregate_lden reads from it.
CandidateRows(table) ==
    CASE table = "LAeq1h" -> {replace_hms(LdenStartTime, 6, 0), replace_hms(LdenStartTime, 7, 0),
                              replace_hms(LdenStartTime, 19, 0), replace_hms(LdenStartTime, 20, 0)}
      [] table = "LAeq15min" -> {replace_hms(LdenStartTime, 18, 45), replace_hms(LdenStartTime, 19, 0),
                                 replace_hms(LdenStartTime, 22, 45), replace_hms(LdenStartTime, 23, 0)}
      [] table = "LAeq30min" -> {replace_hms(LdenStartTime, 22, 30) - 86400,
                                 replace_hms(LdenStartTime, 23, 0) - 86400,
                                 replace_hms(LdenStartTime, 6, 30), replace_hms(LdenStartTime, 7, 0)}

\* The timestamps of a set, ascending (ORDER BY timestamp ASC).
RECURSIVE Ascending(_)
Ascending(S) ==
    IF S = {} THEN <<>>
    ELSE LET m == CHOOSE x \in S : \A y \in S : x <= y
         IN  <<m>> \o Ascending(S \ {m})

\* LAeqAggregator.fetch_records_with_timestamps: (value, timestamp) pairs
\* of the rows stamped within [start, end], by timestamp.
fetch_records_with_timestamps(rows, level, start_time, end_time) ==
    LET ts == Ascending(fetch_records(rows, start_time, end_time))
    IN  [i \in DOMAIN ts |-> <<Fin(level), ts[i]>>]

\* ValueAggregator.fetch_records on a source table: the values.
fetch_values(rows, level, start_time, end_time) ==
    [i \in 1..Cardinality(fetch_records(rows, start_time, end_time)) |-> Fin(level)]

\* LAeqAggregator.calculate_laeq 243-260: None for no level, else the
\* energy mean (nothing is filtered here).
LAeqAggregator_calculate_laeq(sound_levels) ==
    LET T == Len(sound_levels)
        top == TopLevel(sound_levels)
    IN  IF T = 0 THEN None
        ELSE Fin(top.v - TenLog10Ratio(100 * T, RelEnergySum(sound_levels, top)))

\* aggregate_lday 122-137: the loop over the 13 windows of six hours, from
\* window i on; best is <<max_laeq, timestamp_lday_ro>>.
RECURSIVE lday_ro_from(_, _, _, _, _)
lday_ro_from(rows, level, start_time, i, best) ==
    IF i > 12 THEN best
    ELSE LET start == replace_hm(start_time, 7, 0) + 30 * 60 * i
             end == start + 6 * 3600
             sound_levels == fetch_values(rows, level, start, end)
             laeq_value == LAeqAggregator_calculate_laeq(sound_levels)
         IN  lday_ro_from(rows, level, start_time, i + 1,
                 IF Len(sound_levels) > 0 /\ laeq_value # None /\ Less(best[1], laeq_value)
                 THEN <<laeq_value, <<start>>>>
                 ELSE best)

\* aggregate_lday: <<lday_ro, timestamp_lday_ro, lday_eu>>.
aggregate_lday(rows, level, start_time) ==
    LET ro == lday_ro_from(rows, level, start_time, 0, <<NegInf, <<>>>>)
        full_day_sound_levels ==
            fetch_values(rows, level, replace_hms(start_time, 7, 0),
                         replace_hms(start_time, 19, 0))
    IN  <<ro[1], ro[2],
          IF Len(full_day_sound_levels) > 0
          THEN LAeqAggregator_calculate_laeq(full_day_sound_levels) ELSE None>>

\* aggregate_levening 167-174 and aggregate_lnight 196-203: the highest
\* level and its timestamp, from pair i on.
RECURSIVE highest_from(_, _, _)
highest_from(pairs, i, best) ==
    IF i > Len(pairs) THEN best
    ELSE highest_from(pairs, i + 1,
             IF Less(best[1], pairs[i][1]) THEN <<pairs[i][1], <<pairs[i][2]>>>> ELSE best)

\* A period level that is -inf, not None, when the period has no row.
period_eu_never_none(pairs) ==
    IF Len(pairs) > 0
    THEN LAeqAggregator_calculate_laeq([i \in DOMAIN pairs |-> pairs[i][1]])
    ELSE NegInf

\* aggregate_levening 177 and aggregate_lnight 206: the level of the whole
\* period, None when the period has no row.
period_eu(pairs) ==
    IF Len(pairs) > 0
    THEN LAeqAggregator_calculate_laeq([i \in DOMAIN pairs |-> pairs[i][1]])
    ELSE None

\* aggregate_levening: <<levening_ro, timestamp_levening_ro, levening_eu>>.
aggregate_levening(rows, level, start_time) ==
    LET pairs == fetch_records_with_timestamps(rows, level,
                     replace_hms(start_time, 19, 0), replace_hms(start_time, 22, 45))
        ro == highest_from(pairs, 1, <<NegInf, <<>>>>)
    IN  <<ro[1], ro[2], period_eu(pairs)>>

\* aggregate_lnight: <<lnight_ro, timestamp_lnight_ro, lnight_eu>>.
aggregate_lnight(rows, level, start_time) ==
    LET pairs == fetch_records_with_timestamps(rows, level,
                     replace_hms(start_time, 23, 0) - 86400, replace_hms(start_time, 6, 30))
        ro == highest_from(pairs, 1, <<NegInf, <<>>>>)
    IN  <<ro[1], ro[2], period_eu(pairs)>>

\* calculate_lden: None when an argument is None; else the weighted energy
\* sum of the three levels, kept as the term of its arguments.
calculate_lden(lday, levening, lnight) ==
    IF lday # None /\ levening # None /\ lnight # None
    THEN [k |-> "lden", lday |-> lday, levening |-> levening, lnight |-> lnight]
    ELSE None

\* aggregate_lden 48-53: the components and the two levels.
LdenComponents(rows, level, start_time) ==
    LET day == aggregate_lday(rows["LAeq1h"], level["LAeq1h"], start_time)
        evening == aggregate_levening(rows["LAeq15min"], level["LAeq15min"], start_time)
        night == aggregate_lnight(rows["LAeq30min"], level["LAeq30min"], start_time)
    IN  [timestamp |-> start_time,
         lden_ro |-> calculate_lden(day[1], evening[1], night[1]),
         lden_eu |-> calculate_lden(day[3], evening[3], night[3]),
         lday_ro |-> day[1], timestamp_lday_ro |-> day[2], lday_eu |-> day[3],
         levening_ro |-> evening[1], timestamp_levening_ro |-> evening[2],
         levening_eu |-> evening[3],
         lnight_ro |-> night[1], timestamp_lnight_ro |-> night[2], lnight_eu |-> night[3]]

\* aggregate_lden is not running.
LdenIdle ==
    /\ lden_pc = "idle"
    /\ src_rows = [t \in LdenSources |-> {}]
    /\ src_level = [t \in LdenSources |-> 0]
    /\ lden_rows = <<>>

\* notifyAboutInterval 19-21: aggregate_lden was called for the day that
\* ended; each source table has any of its candidate rows.
LdenCalled ==
    /\ lden_pc = "called"
    /\ \E h \in SUBSET CandidateRows("LAeq1h"), q \in SUBSET CandidateRows("LAeq15min"),
          n \in SUBSET CandidateRows("LAeq30min") :
           src_rows = [t \in LdenSources |->
                          CASE t = "LAeq1h" -> h [] t = "LAeq15min" -> q [] t = "LAeq30min" -> n]
    /\ src_level \in [LdenSources -> SourceLevels]
    /\ lden_rows = <<>>

\* aggregate_lden 54-64: both levels were computed; the row is inserted.
InsertLden ==
    /\ lden_pc = "called"
    /\ LET c == LdenComponents(src_rows, src_level, LdenStartTime)
       IN  /\ c.lden_ro # None /\ c.lden_eu # None
           /\ lden_rows' = Append(lden_rows, c)
    /\ lden_pc' = "done"
    /\ UNCHANGED <<syncVars, appVars, notLdenVars, src_rows, src_level>>

\* aggregate_lden 65-66: a level is None; the failure is logged.
LdenFailed ==
    /\ lden_pc = "called"
    /\ LET c == LdenComponents(src_rows, src_level, LdenStartTime)
       IN  ~(c.lden_ro # None /\ c.lden_eu # None)
    /\ lden_pc' = "done"
    /\ UNCHANGED <<syncVars, appVars, notLdenVars, src_rows, src_level, lden_rows>>

\* ------------------------------------------------------------------------
\* Loading the aggregators and the uncertainty of Lden
\* (aggregation_manager.py, incertitude_calculator.py)
\* ------------------------------------------------------------------------
\* The parameters config['AcousticSequences'] may name.
ConfigParams == {"LAeq", "LAF", "LAFmin", "LAFmax", "Incertitude"}

\* The entries of config['AcousticSequences'].
MaxConfigLen == 2

\* param.lower().
lower(p) ==
    CASE p = "LAeq" -> "laeq"
      [] p = "LAF" -> "laf"
      [] p = "LAFmin" -> "lafmin"
      [] p = "LAFmax" -> "lafmax"
      [] p = "Incertitude" -> "incertitude"

\* _load_aggregators 34-35: a name is kept as its stem and its suffix.
module_name(p) == <<lower(p), "_aggregator">>
class_name(p) == <<p, "Aggregator">>

\* The modules of the package aggregation.acoustic_aggregator and the
\* classes each defines.
PackageModules ==
    {[module |-> <<"laeq", "_aggregator">>, classes |-> {<<"LAeq", "Aggregator">>}],
     [module |-> <<"laf", "_aggregator">>, classes |-> {<<"LAF", "Aggregator">>}],
     [module |-> <<"value", "_aggregator">>, classes |-> {<<"Value", "Aggregator">>}],
     [module |-> <<"incertitude", "_calculator">>, classes |-> {<<"Incertitude", "Calculator">>}]}

\* importlib.import_module and getattr succeed (_load_aggregators 38-39).
Loadable(p) ==
    \E m \in PackageModules : m.module = module_name(p) /\ class_name(p) \in m.classes

\* _load_aggregators 38-41: the class that is instantiated for a parameter.
LoadedClass(p) == class_name(p)

\* IncertitudeCalculator.compute_groups_components 167-202: None as soon as
\* a group has no value; with every group present the function ends
\* without a return statement, which is None as well.
compute_groups_components(groups_have_data) ==
    IF ~groups_have_data THEN None ELSE None

\* compute_lday_temporal_uncertainty 74-86: nothing is returned when the
\* groups are None, else the pair <<lday_ref, uday_ref>>.
compute_lday_temporal_uncertainty(groups_have_data) ==
    IF compute_groups_components(groups_have_data) = None THEN None ELSE <<"lday_ref", "uday_ref">>

\* IncertitudeCalculator.notifyAboutInterval 23-49: the number of U_Lden
\* rows the handler inserts. Without an Lden row it returns at line 34;
\* unpacking None into lday_ref, uday_ref at line 37 raises TypeError.
UncertaintyRows(lden_exists, groups_have_data) ==
    IF ~lden_exists THEN 0
    ELSE IF compute_lday_temporal_uncertainty(groups_have_data) = None THEN 0
    ELSE 1

\* AggregationManager.__init__: nothing is loaded.
UncIdle ==
    /\ unc_pc = "idle"
    /\ unc_config = <<>>
    /\ unc_pos = 0
    /\ aggregators = <<>>
    /\ unc_lden_exists = FALSE
    /\ unc_groups = FALSE
    /\ u_lden_rows = <<>>

\* AggregationManager.start 16-17: _load_aggregators begins, with any
\* configuration; the day that ends has or lacks its Lden row and its
\* group data.
UncStart ==
    /\ unc_pc = "loading"
    /\ \E n \in 0..MaxConfigLen : unc_config \in [1..n -> ConfigParams]
    /\ unc_pos = 1
    /\ aggregators = <<>>
    /\ unc_lden_exists \in BOOLEAN
    /\ unc_groups \in BOOLEAN
    /\ u_lden_rows = <<>>

\* _load_aggregators 31-42: the module and the class of the next parameter
\* are found and the aggregator is created.
LoadAggregator ==
    /\ unc_pc = "loading"
    /\ unc_pos \in DOMAIN unc_config
    /\ Loadable(unc_config[unc_pos])
    /\ aggregators' = Append(aggregators, LoadedClass(unc_config[unc_pos]))
    /\ unc_pos' = unc_pos + 1
    /\ UNCHANGED <<syncVars, appVars, notUncVars, unc_pc, unc_config, unc_lden_exists,
                   unc_groups, u_lden_rows>>

\* _load_aggregators 44-45: ImportError or AttributeError is logged and the
\* loop goes on.
LoadAggregatorError ==
    /\ unc_pc = "loading"
    /\ unc_pos \in DOMAIN unc_config
    /\ ~Loadable(unc_config[unc_pos])
    /\ unc_pos' = unc_pos + 1
    /\ UNCHANGED <<syncVars, appVars, notUncVars, unc_pc, unc_config, aggregators,
                   unc_lden_exists, unc_groups, u_lden_rows>>

\* The 24h boundary once every parameter was tried: every IncertitudeCalculator
\* among the aggregators is notified with the boundary's start_time.
UncBoundary ==
    /\ unc_pc = "loading"
    /\ unc_pos > Len(unc_config)
    /\ unc_pc' = "done"
    /\ u_lden_rows' =
           [i \in 1..(Cardinality({k \in DOMAIN aggregators :
                                      aggregators[k] = <<"Incertitude", "Calculator">>})
                      * UncertaintyRows(unc_lden_exists, unc_groups)) |-> LdenStartTime]
    /\ UNCHANGED <<syncVars, appVars, notUncVars, unc_config, unc_pos, aggregators,
                   unc_lden_exists, unc_groups>>

\* ------------------------------------------------------------------------
\* The audio recorder (acquisition/audio_stream.py)
\* ------------------------------------------------------------------------
\* The times the clock moves in a behaviour of the recorder.
MaxAdvances == 3

\* The chunks read in a behaviour of the recorder.
MaxChunks == 3

\* timedelta(seconds=63) of the watchdog.
WatchdogSeconds == 63

\* The seconds by which the clock may move between two statements: the next
\* second, the end of the minute, a stall or a jump of more than a minute.
AdvanceSteps == {1, 59, 65}

\* The seconds of the minute at which the recorder may start.
AudioStartSeconds == {0, 58}

\* timestamp.replace(second=0, microsecond=0).
truncate_to_minute(t) == (t \div 60) * 60

\* WavWriter.__init__ and AudioStream.__init__: no file, no task.
AudioIdle ==
    /\ rec_pc = "none"
    /\ aclock = 0
    /\ advances = 0
    /\ chunk_timestamp = 0
    /\ aligned_minute = 0
    /\ wavfile = <<>>
    /\ current_file_start_time = <<>>
    /\ converted = {}
    /\ chunks = <<>>
    /\ forced = <<>>
    /\ open_handles = {}
    /\ wav_files = {}
    /\ mp3_files = {}
    /\ failed = {}

\* AudioStream.start 42-48: the task is created, the loop is at its top.
AudioStart ==
    /\ rec_pc = "top"
    /\ aclock \in AudioStartSeconds
    /\ advances = 0
    /\ chunk_timestamp = 0
    /\ aligned_minute = 0
    /\ wavfile = <<>>
    /\ current_file_start_time = <<>>
    /\ converted = {}
    /\ chunks = <<>>
    /\ forced = <<>>
    /\ open_handles = {}
    /\ wav_files = {}
    /\ mp3_files = {}
    /\ failed = {}

\* The clock moves while the recorder is between two statements, inside the
\* blocking conversion of force_rotate or inside the read.
AudioAdvance(d) ==
    /\ rec_pc # "none"
    /\ advances < MaxAdvances
    /\ advances' = advances + 1
    /\ aclock' = aclock + d
    /\ UNCHANGED <<syncVars, appVars, notAudioVars, wav_files, mp3_files, failed, rec_pc, chunk_timestamp, aligned_minute,
                   wavfile, current_file_start_time, converted, chunks, forced, open_handles>>

\* _run_loop 64-65: the timestamp of the chunk and its minute.
RecTimestamp ==
    /\ rec_pc = "top"
    /\ Len(chunks) < MaxChunks
    /\ chunk_timestamp' = aclock
    /\ aligned_minute' = truncate_to_minute(aclock)
    /\ rec_pc' = "watchdog"
    /\ UNCHANGED <<syncVars, appVars, notAudioVars, wav_files, mp3_files, failed, aclock, advances, wavfile,
                   current_file_start_time, converted, chunks, forced, open_handles>>

\* _run_loop 68-72: no file was started yet, or the clock read now is less
\* than 63 s after the start of the current file.
WatchdogQuiet ==
    /\ rec_pc = "watchdog"
    /\ IF current_file_start_time = <<>> THEN TRUE
       ELSE aclock < current_file_start_time[1] + WatchdogSeconds
    /\ rec_pc' = "read"
    /\ UNCHANGED <<syncVars, appVars, notAudioVars, wav_files, mp3_files, failed, aclock, advances, chunk_timestamp,
                   aligned_minute, wavfile, current_file_start_time, converted, chunks,
                   forced, open_handles>>

\* The statements of the conversion that may raise, and "none".
Failures == {"none", "from_wav", "export"}

\* WavWriter.close 199-208 and force_rotate 219-229: AudioSegment.from_wav and
\* export inside the try; when one of them raises the handler logs and the
\* MP3 is not written.
export_despite_error(mp3s, file, failure) == mp3s \cup {file[i] : i \in DOMAIN file}

export(mp3s, file, failure) ==
    IF failure = "none" THEN mp3s \cup {file[i] : i \in DOMAIN file} ELSE mp3s

\* WavWriter.close 205 and force_rotate 225: os.remove(wav_path), the last
\* statement of the try, reached only when nothing raised before it.
os_remove(wavs, file, failure) ==
    IF failure = "none" THEN wavs \ {file[i] : i \in DOMAIN file} ELSE wavs

\* WavWriter.close 194-196 and force_rotate 215-217: the handle of the open
\* file, if any, is closed.
close_handles_leaking(handles, file) == handles

close_handles(handles, file) == handles \ {file[i] : i \in DOMAIN file}

\* _run_loop 72-76 and force_rotate 215-229: the clock read now is at least
\* 63 s after the start of the current file; the open file is closed and
\* converted.
ForceRotateClose(failure) ==
    /\ rec_pc = "watchdog"
    /\ current_file_start_time # <<>>
    /\ aclock >= current_file_start_time[1] + WatchdogSeconds
    /\ converted' = converted \cup {wavfile[i] : i \in DOMAIN wavfile}
    /\ mp3_files' = export(mp3_files, wavfile, failure)
    /\ wav_files' = os_remove(wav_files, wavfile, failure)
    /\ failed' = IF failure = "none" THEN failed
                 ELSE failed \cup {wavfile[i] : i \in DOMAIN wavfile}
    /\ open_handles' = close_handles(open_handles, wavfile)
    /\ wavfile' = <<>>
    /\ forced' = Append(forced, [now |-> aclock, closed |-> wavfile, opened |-> <<>>])
    /\ rec_pc' = "rotating"
    /\ UNCHANGED <<syncVars, appVars, notAudioVars, aclock, advances, chunk_timestamp,
                   aligned_minute, current_file_start_time, chunks>>

\* force_rotate 232-241: the clock is read again and the file of its minute
\* is opened.
ForceRotateOpen ==
    /\ rec_pc = "rotating"
    /\ LET new_minute == truncate_to_minute(aclock)
       IN  /\ wavfile' = <<new_minute>>
           /\ open_handles' = open_handles \cup {new_minute}
           /\ current_file_start_time' = <<new_minute>>
           /\ forced' = [forced EXCEPT ![Len(forced)].opened = <<new_minute>>]
           /\ wav_files' = wav_files \cup {new_minute}
    /\ rec_pc' = "read"
    /\ UNCHANGED <<syncVars, appVars, notAudioVars, mp3_files, failed, aclock, advances, chunk_timestamp,
                   aligned_minute, converted, chunks>>

\* WavWriter.update_timestamp 175-176 with _open_new_file 161-169: the file
\* that is open after the call for minute m.
update_timestamp(file, start, m) ==
    IF start = <<>> THEN <<m>> ELSE IF m > start[1] THEN <<m>> ELSE file

\* _run_loop 79-86: the chunk was read; update_timestamp rotates to the
\* minute of the chunk's timestamp when that is later than the current
\* file's, and the chunk is written to the open file.
ReadAndWrite(failure) ==
    /\ rec_pc = "read"
    /\ LET rotate == IF current_file_start_time = <<>> THEN TRUE
                     ELSE aligned_minute > current_file_start_time[1]
           file == update_timestamp(wavfile, current_file_start_time, aligned_minute)
       IN  /\ wavfile' = IF file = <<>> THEN <<truncate_to_minute(aclock)>> ELSE file
           /\ current_file_start_time' =
                  IF rotate THEN <<aligned_minute>>
                  ELSE IF file = <<>> THEN <<aclock>>
                  ELSE current_file_start_time
           /\ open_handles' =
                  IF rotate THEN close_handles(open_handles, wavfile) \cup {aligned_minute}
                  ELSE IF file = <<>> THEN open_handles \cup {truncate_to_minute(aclock)}
                  ELSE open_handles
           /\ converted' = IF rotate THEN converted \cup {wavfile[i] : i \in DOMAIN wavfile}
                           ELSE converted
           /\ rotate \/ failure = "none"
           /\ mp3_files' = IF rotate THEN export(mp3_files, wavfile, failure) ELSE mp3_files
           /\ wav_files' =
                  IF rotate THEN os_remove(wav_files, wavfile, failure) \cup {aligned_minute}
                  ELSE IF file = <<>> THEN wav_files \cup {truncate_to_minute(aclock)}
                  ELSE wav_files
           /\ failed' = IF rotate /\ failure # "none"
                        THEN failed \cup {wavfile[i] : i \in DOMAIN wavfile}
                        ELSE failed
           /\ chunks' = Append(chunks,
                  [file |-> IF file = <<>> THEN truncate_to_minute(aclock) ELSE file[1],
                   timestamp |-> chunk_timestamp])
    /\ rec_pc' = "top"
    /\ UNCHANGED <<syncVars, appVars, notAudioVars, aclock, advances, chunk_timestamp,
                   aligned_minute, forced>>

\* _run_loop 92-94: the read raised; the loop sleeps a second and starts over.
ReadError ==
    /\ rec_pc = "read"
    /\ advances < MaxAdvances
    /\ advances' = advances + 1
    /\ aclock' = aclock + 1
    /\ rec_pc' = "top"
    /\ UNCHANGED <<syncVars, appVars, notAudioVars, wav_files, mp3_files, failed, chunk_timestamp, aligned_minute, wavfile,
                   current_file_start_time, converted, chunks, forced, open_handles>>

\* ------------------------------------------------------------------------
\* The audio uploader (database/mongodb/audio_transfer.py)
\* ------------------------------------------------------------------------
\* The minutes for which a file is staged in a behaviour of the uploader.
MaxFiles == 6

\* The directory scans in a behaviour of the uploader.
MaxScans == 2

\* batch_size of process_files_in_batches, and the file count above which
\* run takes the batch path.
batch_size == 5

\* The files found staged when the uploader starts: none, or a backlog.
InitialFiles == {0, batch_size}

\* The values audio_trigger takes in the remote device document.
TriggerValues == {70}

\* The LAeq1min value of minute m, once its row is written.
MinuteLevel(m) == IF m % 2 = 0 THEN 80 ELSE 60

\* os.listdir filtered on .mp3: the staged files, here in ascending order.
RECURSIVE ListDir(_)
ListDir(files) ==
    IF files = {} THEN <<>>
    ELSE LET m == CHOOSE x \in files : \A y \in files : x <= y
         IN  <<m>> \o ListDir(files \ {m})

\* files[i:i+batch_size] and the files after it.
FirstBatch(files) == SubSeq(files, 1, Min(batch_size, Len(files)))

AfterBatch(files) == SubSeq(files, Min(batch_size, Len(files)) + 1, Len(files))

\* AudioTransfer.fetch_record 62-81: the value of the row stamped with the
\* file's minute; None when there is no row, and None when the query raised.
fetch_record(rows, m, db_ok) ==
    IF db_ok /\ m \in rows THEN <<MinuteLevel(m)>> ELSE <<>>

\* The row of the file's minute as the table holds it, <<>> for none.
RowOf(rows, m) == IF m \in rows THEN <<MinuteLevel(m)>> ELSE <<>>

\* One local deletion, for the record.
Removal(m, value, ack) ==
    [file |-> m, fetched |-> value, row |-> RowOf(laeq1min, m),
     trigger |-> audio_trigger, acknowledged |-> ack]

TransferIdle ==
    /\ at_pc = "none"
    /\ working_dir = {}
    /\ staged = 0
    /\ laeq1min = {}
    /\ audio_trigger = <<>>
    /\ at_files = <<>>
    /\ at_batch = <<>>
    /\ batch_documents = <<>>
    /\ audio_collection = {}
    /\ removed = {}
    /\ scans = 0

\* AudioTransfer.__init__ and run 186-189: the trigger was read from the
\* device document, or stayed None; the files of an earlier outage are
\* staged and their rows written, the newest one's perhaps not yet.
TransferStart ==
    /\ at_pc = "scan"
    /\ staged \in InitialFiles
    /\ working_dir = 1..staged
    /\ laeq1min \in {1..staged, 1..(staged - 1)}
    /\ audio_trigger \in {<<>>} \cup {<<v>> : v \in TriggerValues}
    /\ at_files = <<>>
    /\ at_batch = <<>>
    /\ batch_documents = <<>>
    /\ audio_collection = {}
    /\ removed = {}
    /\ scans = 0

\* WavWriter.close 198-204: the recorder stages the file of the next minute.
StageFile ==
    /\ at_pc # "none"
    /\ staged < MaxFiles
    /\ staged' = staged + 1
    /\ working_dir' = working_dir \cup {staged + 1}
    /\ UNCHANGED <<syncVars, appVars, notTransferVars, at_pc, laeq1min, audio_trigger,
                   at_files, at_batch, batch_documents, audio_collection, removed, scans>>

\* LAeqAggregator.aggregate_data 27-37 for the 1min interval: the row of a
\* minute is inserted, stamped with the start of the minute.
WriteLAeq1min(m) ==
    /\ at_pc # "none"
    /\ m \notin laeq1min
    /\ m <= staged + 1
    /\ laeq1min' = laeq1min \cup {m}
    /\ UNCHANGED <<syncVars, appVars, notTransferVars, at_pc, working_dir, staged,
                   audio_trigger, at_files, at_batch, batch_documents, audio_collection, removed,
                   scans>>

\* watch_audio_trigger_changes 221-224: the device document was updated.
TriggerChanged(v) ==
    /\ at_pc # "none"
    /\ audio_trigger # <<v>>
    /\ audio_trigger' = <<v>>
    /\ UNCHANGED <<syncVars, appVars, notTransferVars, at_pc, working_dir, staged, laeq1min,
                   at_files, at_batch, batch_documents, audio_collection, removed, scans>>

\* run 193-205: the directory is counted; more than five files go the batch
\* path, fewer the single-file path, none makes the loop sleep.
ScanDirectory ==
    /\ at_pc = "scan"
    /\ scans < MaxScans
    /\ scans' = scans + 1
    /\ LET files == ListDir(working_dir)
       IN  IF Len(files) > batch_size
           THEN /\ at_pc' = "batch"
                /\ at_batch' = FirstBatch(files)
                /\ at_files' = AfterBatch(files)
           ELSE IF Len(files) > 0
           THEN /\ at_pc' = "single"
                /\ at_files' = files
                /\ at_batch' = <<>>
           ELSE UNCHANGED <<at_pc, at_files, at_batch>>
    /\ UNCHANGED <<syncVars, appVars, notTransferVars, working_dir, staged, laeq1min,
                   audio_trigger, batch_documents, audio_collection, removed>>

\* process_and_upload_file 142-178: no value deletes the file; a value below
\* the trigger deletes it; a value at or above it is inserted and the file
\* deleted once the insert is acknowledged; the comparison with a trigger
\* of None raises, and so may the insert: the file then stays.
ProcessAndUploadFile(db_ok, inserted) ==
    /\ at_pc = "single"
    /\ at_files # <<>>
    /\ LET m == Head(at_files)
           value == fetch_record(laeq1min, m, db_ok)
       IN  IF value = <<>>
           THEN /\ working_dir' = working_dir \ {m}
                /\ removed' = removed \cup {Removal(m, value, FALSE)}
                /\ UNCHANGED audio_collection
           ELSE IF audio_trigger = <<>>
           THEN UNCHANGED <<working_dir, removed, audio_collection>>
           ELSE IF value[1] >= audio_trigger[1]
           THEN IF inserted
                THEN /\ audio_collection' = audio_collection \cup {m}
                     /\ working_dir' = working_dir \ {m}
                     /\ removed' = removed \cup {Removal(m, value, TRUE)}
                ELSE UNCHANGED <<working_dir, removed, audio_collection>>
           ELSE /\ working_dir' = working_dir \ {m}
                /\ removed' = removed \cup {Removal(m, value, FALSE)}
                /\ UNCHANGED audio_collection
    /\ at_files' = Tail(at_files)
    /\ UNCHANGED <<syncVars, appVars, notTransferVars, at_pc, staged, laeq1min,
                   audio_trigger, at_batch, batch_documents, scans>>

\* process_files 139-140 and run 202: every file of the listing was
\* processed; the loop sleeps and scans again.
ProcessFilesDone ==
    /\ at_pc = "single"
    /\ at_files = <<>>
    /\ at_pc' = "scan"
    /\ UNCHANGED <<syncVars, appVars, notTransferVars, working_dir, staged, laeq1min,
                   audio_trigger, at_files, at_batch, batch_documents, audio_collection, removed,
                   scans>>

\* prepare_documents 104-133 for one file of the batch: a value at or above
\* the trigger makes a document; no value, no trigger or a value below the
\* trigger deletes the file.
PrepareDocument(db_ok) ==
    /\ at_pc = "batch"
    /\ at_batch # <<>>
    /\ LET m == Head(at_batch)
           value == fetch_record(laeq1min, m, db_ok)
       IN  IF value # <<>> /\ audio_trigger # <<>>
           THEN IF value[1] >= audio_trigger[1]
                THEN /\ batch_documents' = Append(batch_documents, m)
                     /\ UNCHANGED <<working_dir, removed>>
                ELSE /\ working_dir' = working_dir \ {m}
                     /\ removed' = removed \cup {Removal(m, value, FALSE)}
                     /\ UNCHANGED batch_documents
           ELSE /\ working_dir' = working_dir \ {m}
                /\ removed' = removed \cup {Removal(m, value, FALSE)}
                /\ UNCHANGED batch_documents
    /\ at_batch' = Tail(at_batch)
    /\ UNCHANGED <<syncVars, appVars, notTransferVars, at_pc, staged, laeq1min,
                   audio_trigger, at_files, audio_collection, scans>>

\* process_files_in_batches 91-99 and run 198: the documents of the batch
\* are inserted with insert_many and their files deleted once the insert is
\* acknowledged; then the next batch, or the next scan.
InsertBatch(inserted) ==
    /\ at_pc = "batch"
    /\ at_batch = <<>>
    /\ LET docs == {batch_documents[i] : i \in DOMAIN batch_documents}
       IN  IF batch_documents # <<>> /\ inserted
           THEN /\ audio_collection' = audio_collection \cup docs
                /\ working_dir' = working_dir \ docs
                /\ removed' = removed \cup
                       {Removal(m, RowOf(laeq1min, m), TRUE) : m \in docs}
           ELSE UNCHANGED <<audio_collection, working_dir, removed>>
    /\ batch_documents' = <<>>
    /\ IF at_files = <<>>
       THEN /\ at_pc' = "scan"
            /\ UNCHANGED <<at_files, at_batch>>
       ELSE /\ at_batch' = FirstBatch(at_files)
            /\ at_files' = AfterBatch(at_files)
            /\ UNCHANGED at_pc
    /\ UNCHANGED <<syncVars, appVars, notTransferVars, staged, laeq1min, audio_trigger,
                   scans>>

\* ------------------------------------------------------------------------
\* The disconnect callback and what triggers it (main.py,
\* monitoring/monitor_status.py, monitoring/audio_stall_detector.py,
\* database/mongodb/microphone_details.py)
\* ------------------------------------------------------------------------
\* The invocations of the callback in a behaviour of the supervisor.
MaxCalls == 3

\* The times the device is unplugged in a behaviour of the supervisor.
MaxLosses == 2

\* The objects that keep a callback_in_progress flag of their own, beside
\* each AudioStallDetector.
FlagOwners == {"MonitorStatus", "MicrophoneDetails"}

\* The flag a trigger tests and sets.
FlagOf(source) ==
    IF source \in {"presence", "reset"} THEN "MonitorStatus" ELSE "MicrophoneDetails"

NoCall == [source |-> "none", pc |-> "none", detector |-> 0]

\* The invocations of the callback that have begun and not returned.
InProgress == {c \in 1..MaxCalls : sv_calls[c].pc \notin {"none", "done"}}

\* The number of the next invocation, 0 when the bound is reached.
NextCall ==
    IF \E c \in 1..MaxCalls : sv_calls[c].pc = "none"
    THEN CHOOSE c \in 1..MaxCalls :
             sv_calls[c].pc = "none" /\ \A d \in 1..(c - 1) : sv_calls[d].pc # "none"
    ELSE 0

\* asyncio.create_task(self.handle_callback()): the callback is invoked, by
\* detector d when the source is the stall watchdog.
Invoke(source, d) ==
    [sv_calls EXCEPT ![NextCall] = [source |-> source, pc |-> "begin", detector |-> d]]

\* The stall detectors whose callback_in_progress is set: _handle_callback
\* 94-101 resets the flag when the callback returns.
FlaggedDetectors == {sv_calls[c].detector : c \in InProgress}

SupervisorIdle ==
    /\ sv_present = FALSE
    /\ sv_event = FALSE
    /\ sv_monitor = "none"
    /\ sv_flags = [o \in FlagOwners |-> FALSE]
    /\ sv_detectors = {}
    /\ sv_detector = 0
    /\ sv_calls = [c \in 1..MaxCalls |-> NoCall]
    /\ sv_manager = 0
    /\ sv_running = {}
    /\ sv_losses = 0
    /\ sv_loss_calls = 0
    /\ sv_skipped = 0
    /\ sv_unplugs = 0

\* Application.start has reached line 96: the device was found, the first
\* acquisition manager runs its sampler, recorder and scheduler, and the
\* first stall detector runs.
SupervisorStart ==
    /\ sv_present = TRUE
    /\ sv_event = TRUE
    /\ sv_monitor = "monitoring"
    /\ sv_flags = [o \in FlagOwners |-> FALSE]
    /\ sv_detectors = {1}
    /\ sv_detector = 1
    /\ sv_calls = [c \in 1..MaxCalls |-> NoCall]
    /\ sv_manager = 1
    /\ sv_running = {1}
    /\ sv_losses = 0
    /\ sv_loss_calls = 0
    /\ sv_skipped = 0
    /\ sv_unplugs = 0

SvUnplug ==
    /\ sv_monitor # "none"
    /\ sv_present
    /\ sv_unplugs < MaxLosses
    /\ sv_present' = FALSE
    /\ sv_unplugs' = sv_unplugs + 1
    /\ UNCHANGED <<syncVars, appVars, notSupervisorVars, sv_event, sv_monitor, sv_flags,
                   sv_detectors, sv_detector, sv_calls, sv_manager, sv_running, sv_losses,
                   sv_loss_calls, sv_skipped>>

SvPlug ==
    /\ sv_monitor # "none"
    /\ ~sv_present
    /\ sv_present' = TRUE
    /\ UNCHANGED <<syncVars, appVars, notSupervisorVars, sv_event, sv_monitor, sv_flags,
                   sv_detectors, sv_detector, sv_calls, sv_manager, sv_running, sv_losses,
                   sv_loss_calls, sv_unplugs, sv_skipped>>

\* check_serial_device 57-63: the port is found, the event is set.
PresenceFound ==
    /\ sv_monitor = "waiting"
    /\ sv_present
    /\ sv_event' = TRUE
    /\ sv_monitor' = "monitoring"
    /\ UNCHANGED <<syncVars, appVars, notSupervisorVars, sv_present, sv_flags, sv_detectors,
                   sv_detector, sv_calls, sv_manager, sv_running, sv_losses, sv_loss_calls,
                   sv_unplugs, sv_skipped>>

\* check_serial_device 77: `not self.callback_in_progress` fails.
callback_unguarded(flags) == FALSE

callback_guarded(flags) == flags["MonitorStatus"]

\* check_serial_device 70-79: the port is gone: the event is cleared, and
\* the callback is invoked unless MonitorStatus.callback_in_progress is set.
PresenceLost ==
    /\ sv_monitor = "monitoring"
    /\ ~sv_present
    /\ sv_event' = FALSE
    /\ sv_monitor' = "waiting"
    /\ callback_guarded(sv_flags) \/ NextCall # 0
    /\ sv_losses' = sv_losses + 1
    /\ IF ~callback_guarded(sv_flags)
       THEN /\ sv_flags' = [sv_flags EXCEPT !["MonitorStatus"] = TRUE]
            /\ sv_calls' = Invoke("presence", 0)
            /\ sv_loss_calls' = sv_loss_calls + 1
            /\ UNCHANGED sv_skipped
       ELSE /\ sv_skipped' = sv_skipped + 1
            /\ UNCHANGED <<sv_flags, sv_calls, sv_loss_calls>>
    /\ UNCHANGED <<syncVars, appVars, notSupervisorVars, sv_present, sv_detectors,
                   sv_detector, sv_manager, sv_running, sv_unplugs>>

\* handle_updated_parameters 213-215: the watcher of the device document
\* invokes the callback, as a task, unless the flag of MicrophoneDetails is
\* set.
ParametersUpdated ==
    /\ sv_monitor # "none"
    /\ NextCall # 0
    /\ ~sv_flags["MicrophoneDetails"]
    /\ sv_flags' = [sv_flags EXCEPT !["MicrophoneDetails"] = TRUE]
    /\ sv_calls' = Invoke("watcher", 0)
    /\ UNCHANGED <<syncVars, appVars, notSupervisorVars, sv_present, sv_event, sv_monitor,
                   sv_detectors, sv_detector, sv_manager, sv_running, sv_losses,
                   sv_loss_calls, sv_unplugs, sv_skipped>>

\* execute_scheduled_reset 127-143: unless the flag of MonitorStatus is set,
\* the cron job sets it and awaits the callback, which runs at once up to
\* its first suspension (main.py 108-116): the detector is stopped.
ScheduledResetFires ==
    /\ sv_monitor # "none"
    /\ NextCall # 0
    /\ ~sv_flags["MonitorStatus"]
    /\ sv_flags' = [sv_flags EXCEPT !["MonitorStatus"] = TRUE]
    /\ sv_calls' = [sv_calls EXCEPT ![NextCall] =
                       [source |-> "reset", pc |-> "stop_acquisition", detector |-> 0]]
    /\ sv_detectors' = sv_detectors \ {sv_detector}
    /\ sv_detector' = 0
    /\ UNCHANGED <<syncVars, appVars, notSupervisorVars, sv_present, sv_event, sv_monitor,
                   sv_manager, sv_running, sv_losses, sv_loss_calls, sv_unplugs, sv_skipped>>

\* AudioStallDetector.start 57-62: a detector that runs has counted its
\* stall scans and invokes the callback unless its own flag is set.
StallDetected(d) ==
    /\ d \in sv_detectors
    /\ d \notin FlaggedDetectors
    /\ NextCall # 0
    /\ sv_calls' = Invoke("stall", d)
    /\ UNCHANGED <<syncVars, appVars, notSupervisorVars, sv_present, sv_event, sv_monitor,
                   sv_flags, sv_detectors, sv_detector, sv_manager, sv_running, sv_losses,
                   sv_loss_calls, sv_unplugs, sv_skipped>>

\* handle_device_disconnected 108-119: the detector the application holds
\* is stopped and its task cancelled.
CallbackStopDetector(c) ==
    /\ sv_calls[c].pc = "begin"
    /\ sv_detectors' = sv_detectors \ {sv_detector}
    /\ sv_detector' = 0
    /\ sv_calls' = [sv_calls EXCEPT ![c].pc = "stop_acquisition"]
    /\ UNCHANGED <<syncVars, appVars, notSupervisorVars, sv_present, sv_event, sv_monitor,
                   sv_flags, sv_manager, sv_running, sv_losses, sv_loss_calls, sv_unplugs, sv_skipped>>

\* AcquisitionManager.stop 147-154: agmanager.stop() is called first; the
\* scheduler is stopped and the streams are cleaned up only if that call
\* does not raise.
stopped_by_manager_stop(running, g) ==
    IF HasMethod(AggregationManagerMethods, "stop") THEN running \ {g} ELSE running

\* handle_device_disconnected 121-134: the task of the manager's start() is
\* cancelled and the manager's stop() awaited, its error caught and logged.
CallbackStopRunning(c) ==
    /\ sv_calls[c].pc = "stop_acquisition"
    /\ sv_running' = stopped_by_manager_stop(sv_running, sv_manager)
    /\ sv_calls' = [sv_calls EXCEPT ![c].pc = "wait"]
    /\ UNCHANGED <<syncVars, appVars, notSupervisorVars, sv_present, sv_event, sv_monitor,
                   sv_flags, sv_detectors, sv_detector, sv_manager, sv_losses,
                   sv_loss_calls, sv_unplugs, sv_skipped>>

\* handle_device_disconnected 136-165 and handle_callback: the event is
\* set and the sensor object can be built: a new acquisition manager and a
\* new stall detector are started, the callback returns and the flag of the
\* object that invoked it is reset.
CallbackRestartAll(c) ==
    /\ sv_calls[c].pc = "wait"
    /\ sv_event
    /\ sv_present
    /\ sv_manager' = sv_manager + 1
    /\ sv_running' = sv_running \cup {sv_manager + 1}
    /\ sv_detector' = sv_manager + 1
    /\ sv_detectors' = sv_detectors \cup {sv_manager + 1}
    /\ sv_calls' = [sv_calls EXCEPT ![c].pc = "done"]
    /\ sv_flags' = IF sv_calls[c].source = "stall" THEN sv_flags
                   ELSE [sv_flags EXCEPT ![FlagOf(sv_calls[c].source)] = FALSE]
    /\ UNCHANGED <<syncVars, appVars, notSupervisorVars, sv_present, sv_event, sv_monitor,
                   sv_losses, sv_loss_calls, sv_unplugs, sv_skipped>>

\* ------------------------------------------------------------------------
\* The audio stall detector (monitoring/audio_stall_detector.py)
\* ------------------------------------------------------------------------
\* The files staged in a behaviour of the detector.
MaxStaged == 2

\* The scans a detector makes after it has reached its limit.
MaxExtraScans == 2

\* The invocations of the callback by one detector.
MaxInvocations == 2

\* AudioStallDetector.__init__: the defaults of its arguments.
scan_interval == 5

max_stall_duration_minutes == 3

\* AudioStallDetector.__init__ 22.
max_stall_scans_late == (60 \div scan_interval) * max_stall_duration_minutes + 1

max_stall_scans == (60 \div scan_interval) * max_stall_duration_minutes

\* _get_latest_audio_timestamp 76-92: the newest timestamp of the folder,
\* None (0) when it holds no file.
latest_audio_timestamp(folder) ==
    IF folder = {} THEN 0 ELSE CHOOSE x \in folder : \A y \in folder : y <= x

StallIdle ==
    /\ sd_pc = "none"
    /\ sd_folder = {}
    /\ sd_staged = 0
    /\ last_seen_timestamp = 0
    /\ stall_scan_counter = 0
    /\ sd_in_progress = FALSE
    /\ sd_invocations = 0
    /\ sd_quiet = 0

\* AudioStallDetector.__init__ 20-28 and start 38-39, the folder empty or
\* holding a file of an earlier run.
StallStart ==
    /\ sd_pc = "running"
    /\ sd_staged \in {0, 1}
    /\ sd_folder = 1..sd_staged
    /\ last_seen_timestamp = 0
    /\ stall_scan_counter = 0
    /\ sd_in_progress = FALSE
    /\ sd_invocations = 0
    /\ sd_quiet = 0

\* WavWriter.close: the recorder stages the file of a later minute.
FolderGrows ==
    /\ sd_pc # "none"
    /\ sd_staged < MaxStaged
    /\ sd_staged' = sd_staged + 1
    /\ sd_folder' = sd_folder \cup {sd_staged + 1}
    /\ UNCHANGED <<syncVars, appVars, notStallVars, sd_pc, last_seen_timestamp,
                   stall_scan_counter, sd_in_progress, sd_invocations, sd_quiet>>

\* AudioTransfer: the uploader deletes a staged file.
FolderShrinks(f) ==
    /\ sd_pc # "none"
    /\ f \in sd_folder
    /\ sd_folder' = sd_folder \ {f}
    /\ UNCHANGED <<syncVars, appVars, notStallVars, sd_pc, sd_staged, last_seen_timestamp,
                   stall_scan_counter, sd_in_progress, sd_invocations, sd_quiet>>

\* start 41-64: one scan. A newer timestamp than the last seen resets the
\* counter; otherwise, and with no file, the counter grows; at the limit the
\* callback is invoked unless the detector's flag is set.
Scan ==
    /\ sd_pc = "running"
    /\ stall_scan_counter < max_stall_scans + MaxExtraScans
    /\ LET latest_ts == latest_audio_timestamp(sd_folder)
           advanced == latest_ts # 0 /\ (last_seen_timestamp = 0 \/ latest_ts > last_seen_timestamp)
           counter == IF advanced THEN 0 ELSE stall_scan_counter + 1
           invoke == counter >= max_stall_scans /\ ~sd_in_progress
       IN  /\ last_seen_timestamp' = IF advanced THEN latest_ts ELSE last_seen_timestamp
           /\ stall_scan_counter' = counter
           /\ invoke => sd_invocations < MaxInvocations
           /\ sd_quiet' = IF advanced THEN 0 ELSE sd_quiet + 1
           /\ sd_in_progress' = (sd_in_progress \/ invoke)
           /\ sd_invocations' = IF invoke THEN sd_invocations + 1 ELSE sd_invocations
    /\ UNCHANGED <<syncVars, appVars, notStallVars, sd_pc, sd_folder, sd_staged>>

\* AudioStallDetector.stop 103-105 and the cancellation of its task by the
\* callback (main.py 108-119).
StopDetector ==
    /\ sd_pc = "running"
    /\ sd_pc' = "stopped"
    /\ UNCHANGED <<syncVars, appVars, notStallVars, sd_folder, sd_staged,
                   last_seen_timestamp, stall_scan_counter, sd_in_progress,
                   sd_invocations, sd_quiet>>

\* _handle_callback 94-101: the callback the detector started returns; the
\* flag and the counter are reset.
StallCallbackReturns ==
    /\ sd_in_progress
    /\ sd_in_progress' = FALSE
    /\ stall_scan_counter' = 0
    /\ sd_quiet' = 0
    /\ UNCHANGED <<syncVars, appVars, notStallVars, sd_pc, sd_folder, sd_staged,
                   last_seen_timestamp, sd_invocations>>

\* ------------------------------------------------------------------------
\* Startup (main.py Application.start, mysql_connection_manager.py)
\* ------------------------------------------------------------------------
\* The failed attempts of manager_start in a behaviour.
MaxAttempts == 7

StartupIdle ==
    /\ su_pc = "none"
    /\ su_attempt = 0
    /\ su_delay = 1
    /\ su_slept = <<>>
    /\ su_pool = "unset"
    /\ su_ready = FALSE
    /\ su_monitor = "none"
    /\ su_present = FALSE
    /\ su_event = FALSE
    /\ su_was_set = FALSE
    /\ su_path = 0
    /\ su_acquisition = "none"
    /\ su_started = {}

\* main.py 42-52: start() has created the remote manager's task; the sensor
\* is plugged or not.
StartupBegin ==
    /\ su_pc = "start"
    /\ su_attempt = 0
    /\ su_delay = 1
    /\ su_slept = <<>>
    /\ su_pool = "unset"
    /\ su_ready = FALSE
    /\ su_monitor = "none"
    /\ su_present \in BOOLEAN
    /\ su_event = FALSE
    /\ su_was_set = FALSE
    /\ su_path = 0
    /\ su_acquisition = "none"
    /\ su_started = {}

\* manager_start 22-23, entered on behalf of start().
ManagerStartEntered ==
    /\ su_pc = "pool_retry"
    /\ su_attempt = 0
    /\ su_delay = 1
    /\ su_slept = <<>>
    /\ su_pool = "unset"
    /\ su_ready = FALSE
    /\ su_monitor = "none"
    /\ su_present \in BOOLEAN
    /\ su_event = FALSE
    /\ su_was_set = FALSE
    /\ su_path = 0
    /\ su_acquisition = "none"
    /\ su_started = {}

\* main.py 56 and 98-99: start() awaits mysql_manager.start(); the
\* AttributeError of a missing method ends start() in its handler.
AwaitMySQLStart ==
    /\ su_pc = "start"
    /\ su_pc' = IF HasMethod(MySQLConnectionManagerMethods, "start")
                THEN "pool_retry"
                ELSE "start_failed"
    /\ UNCHANGED <<syncVars, appVars, notStartupVars, su_attempt, su_delay, su_slept,
                   su_pool, su_ready, su_monitor, su_present, su_event, su_was_set,
                   su_path, su_acquisition, su_started>>

\* manager_start 26-38: the return is reached when create_pool did not raise.
returns_always(created) == TRUE

returns(created) == created

\* manager_start 25-43: one attempt. A created pool is returned; a failure
\* sleeps the delay and doubles it up to 60.
PoolAttempt(created) ==
    /\ su_pc = "pool_retry"
    /\ created \/ su_attempt < MaxAttempts
    /\ IF returns(created)
       THEN /\ su_pool' = IF created THEN "pool" ELSE "none"
            /\ su_pc' = "pool_returned"
            /\ UNCHANGED <<su_attempt, su_delay, su_slept>>
       ELSE /\ su_attempt' = su_attempt + 1
            /\ su_slept' = Append(su_slept, su_delay)
            /\ su_delay' = Min(su_delay * 2, 60)
            /\ UNCHANGED <<su_pool, su_pc>>
    /\ UNCHANGED <<syncVars, appVars, notStartupVars, su_ready, su_monitor, su_present,
                   su_event, su_was_set, su_path, su_acquisition, su_started>>

\* main.py 57-69: the ready event is set when a pool was returned; the
\* presence loop is started as a task and start() waits for the device.
StartPresenceLoop ==
    /\ su_pc = "pool_returned"
    /\ su_ready' = (su_pool # "none")
    /\ su_monitor' = "waiting"
    /\ su_started' = su_started \cup {"presence"}
    /\ su_pc' = "await_device"
    /\ UNCHANGED <<syncVars, appVars, notStartupVars, su_attempt, su_delay, su_slept,
                   su_pool, su_present, su_event, su_was_set, su_path, su_acquisition>>

\* The sensor is plugged or unplugged.
SensorToggles ==
    /\ su_pc # "none"
    /\ su_present' = ~su_present
    /\ UNCHANGED <<syncVars, appVars, notStartupVars, su_pc, su_attempt, su_delay,
                   su_slept, su_pool, su_ready, su_monitor, su_event, su_was_set,
                   su_path, su_acquisition, su_started>>

\* check_serial_device 55-66: the port is looked up; found, the path is
\* recorded and the event set; otherwise the event is cleared.
PresencePoll ==
    /\ su_monitor = "waiting"
    /\ IF su_present
       THEN /\ su_path' = 1
            /\ su_event' = TRUE
            /\ su_was_set' = TRUE
            /\ su_monitor' = "monitoring"
       ELSE /\ su_event' = FALSE
            /\ UNCHANGED <<su_path, su_was_set, su_monitor>>
    /\ UNCHANGED <<syncVars, appVars, notStartupVars, su_pc, su_attempt, su_delay,
                   su_slept, su_pool, su_ready, su_present, su_acquisition, su_started>>

\* check_serial_device 69-74: the port is gone; the event is cleared and
\* the path kept.
PresenceLoss ==
    /\ su_monitor = "monitoring"
    /\ ~su_present
    /\ su_event' = FALSE
    /\ su_monitor' = "waiting"
    /\ UNCHANGED <<syncVars, appVars, notStartupVars, su_pc, su_attempt, su_delay,
                   su_slept, su_pool, su_ready, su_present, su_was_set, su_path,
                   su_acquisition, su_started>>

\* main.py 69-92: start() resumes with the event set and a path recorded;
\* the acquisition manager's start() and the stall watchdog are started as
\* tasks.
CreateAcquisitionTasks ==
    /\ su_pc = "await_device"
    /\ su_event
    /\ su_path # 0
    /\ su_acquisition' = "created"
    /\ su_started' = su_started \cup {"watchdog"}
    /\ su_pc' = "running"
    /\ UNCHANGED <<syncVars, appVars, notStartupVars, su_attempt, su_delay, su_slept,
                   su_pool, su_ready, su_monitor, su_present, su_event, su_was_set, su_path>>

\* AcquisitionManager.start 49-63 and AggregationManager.start 16-21: the
\* interval scheduler is started as a task.
AggregationStarts ==
    /\ su_acquisition = "created"
    /\ su_acquisition' = "aggregating"
    /\ su_started' = su_started \cup {"scheduler"}
    /\ UNCHANGED <<syncVars, appVars, notStartupVars, su_pc, su_attempt, su_delay,
                   su_slept, su_pool, su_ready, su_monitor, su_present, su_event,
                   su_was_set, su_path>>

\* AcquisitionManager.start 65 and start_handle_acquisition 98-126: the
\* sampler and the audio recorder are started.
StreamsStart ==
    /\ su_acquisition = "aggregating"
    /\ su_acquisition' = "streaming"
    /\ su_started' = su_started \cup {"sampler", "recorder"}
    /\ UNCHANGED <<syncVars, appVars, notStartupVars, su_pc, su_attempt, su_delay,
                   su_slept, su_pool, su_ready, su_monitor, su_present, su_event,
                   su_was_set, su_path>>

\* ------------------------------------------------------------------------
\* Shutdown (main.py Application.stop, run and main)
\* ------------------------------------------------------------------------
\* The pieces of work a component does while the shutdown proceeds.
MaxWork == 1

Components == {"presence", "watchdog", "aggregators", "sampler", "recorder", "remote"}

\* The component a task of Application.tasks runs; the streams and the
\* aggregators run in tasks of their own, which Application.tasks does not hold.
ComponentOfTask(task) ==
    CASE task = "monitor_task" -> {"presence"}
      [] task = "audio_detector_task" -> {"watchdog"}
      [] OTHER -> {}

ShutdownIdle ==
    /\ sh_pc = "none"
    /\ sh_manager = FALSE
    /\ sh_pool = "none"
    /\ sh_tasks = <<>>
    /\ sh_cancelled = 0
    /\ sh_live = {}
    /\ sh_work = [c \in Components |-> 0]
    /\ sh_steps = <<>>
    /\ sh_stops = 0

\* The application when its shutdown is due: start() ended at the pool
\* manager, is waiting for the sensor, or has started acquisition
\* (main.py 51, 65, 87, 92).
ShutdownDue ==
    /\ sh_pc = "running"
    /\ \/ /\ sh_tasks = <<"mongo_task">>
          /\ sh_pool = "none"
          /\ sh_manager = FALSE
          /\ sh_live = {"remote"}
       \/ /\ sh_tasks = <<"mongo_task", "monitor_task">>
          /\ sh_pool = "open"
          /\ sh_manager = FALSE
          /\ sh_live = {"remote", "presence"}
       \/ /\ sh_tasks = <<"mongo_task", "monitor_task", "acquisition_task", "audio_detector_task">>
          /\ sh_pool = "open"
          /\ sh_manager = TRUE
          /\ sh_live = Components
    /\ sh_cancelled = 0
    /\ sh_work = [c \in Components |-> 0]
    /\ sh_steps = <<>>
    /\ sh_stops = 0

\* A running component does a piece of its work.
ComponentWorks(c) ==
    /\ sh_pc # "none"
    /\ c \in sh_live
    /\ sh_work[c] < MaxWork
    /\ sh_work' = [sh_work EXCEPT ![c] = @ + 1]
    /\ UNCHANGED <<syncVars, appVars, notShutdownVars, sh_pc, sh_manager, sh_pool, sh_tasks,
                   sh_cancelled, sh_live, sh_steps, sh_stops>>

\* run 206-207 and main 218-223: stop() is called from run's finally, and
\* once more from main when the first call raised.
StopCalled ==
    /\ \/ sh_pc = "running"
       \/ sh_pc = "raised" /\ sh_stops < 2
    /\ sh_stops' = sh_stops + 1
    /\ sh_cancelled' = 0
    /\ sh_steps' = <<>>
    /\ sh_pc' = "cancel"
    /\ UNCHANGED <<syncVars, appVars, notShutdownVars, sh_manager, sh_pool, sh_tasks,
                   sh_live, sh_work>>

\* stop 183-188: the next task of Application.tasks is cancelled and awaited;
\* after the last one stop() goes on.
CancelTask ==
    /\ sh_pc = "cancel"
    /\ IF sh_cancelled < Len(sh_tasks)
       THEN /\ sh_cancelled' = sh_cancelled + 1
            /\ sh_live' = sh_live \ ComponentOfTask(sh_tasks[sh_cancelled + 1])
            /\ UNCHANGED <<sh_pc, sh_steps>>
       ELSE /\ sh_steps' = Append(sh_steps, "tasks")
            /\ sh_pc' = "acquisition"
            /\ UNCHANGED <<sh_cancelled, sh_live>>
    /\ UNCHANGED <<syncVars, appVars, notShutdownVars, sh_manager, sh_pool, sh_tasks,
                   sh_work, sh_stops>>

\* stop 189-190 and AcquisitionManager.stop 147-154: agmanager.stop() is
\* looked up, then the streams are cleaned up; the AttributeError of a
\* missing method leaves stop().
StopAcquisitionManager ==
    /\ sh_pc = "acquisition"
    /\ IF ~sh_manager
       THEN /\ sh_pc' = "remote"
            /\ UNCHANGED <<sh_steps, sh_live>>
       ELSE IF HasMethod(AggregationManagerMethods, "stop")
       THEN /\ sh_steps' = sh_steps \o <<"aggregators", "sampler", "recorder">>
            /\ sh_live' = sh_live \ {"aggregators", "sampler", "recorder"}
            /\ sh_pc' = "remote"
       ELSE /\ sh_pc' = "raised"
            /\ UNCHANGED <<sh_steps, sh_live>>
    /\ UNCHANGED <<syncVars, appVars, notShutdownVars, sh_manager, sh_pool, sh_tasks,
                   sh_cancelled, sh_work, sh_stops>>

\* stop 191-192 and MongoDBConnectionManager.stop 35-41: the connection
\* handler is closed and the data sync manager stopped.
StopRemoteSync ==
    /\ sh_pc = "remote"
    /\ sh_steps' = Append(sh_steps, "remote")
    /\ sh_live' = sh_live \ {"remote"}
    /\ sh_pc' = "pool"
    /\ UNCHANGED <<syncVars, appVars, notShutdownVars, sh_manager, sh_pool, sh_tasks,
                   sh_cancelled, sh_work, sh_stops>>

\* stop 193-195: mysql_manager.stop() is looked up; manager_stop 48-55
\* closes the pool when there is one.
StopPoolManager ==
    /\ sh_pc = "pool"
    /\ IF HasMethod(MySQLConnectionManagerMethods, "stop")
       THEN /\ sh_steps' = Append(sh_steps, "pool")
            /\ sh_pool' = IF sh_pool = "open" THEN "closed" ELSE sh_pool
            /\ sh_pc' = "stopped"
       ELSE /\ sh_pc' = "raised"
            /\ UNCHANGED <<sh_steps, sh_pool>>
    /\ UNCHANGED <<syncVars, appVars, notShutdownVars, sh_manager, sh_tasks, sh_cancelled,
                   sh_live, sh_work, sh_stops>>

\* ------------------------------------------------------------------------
\* The LAeq helper and the 1min level of the LAeq aggregator
\* (average.py, laeq_aggregator.py aggregate_data, value_aggregator.py)
\* ------------------------------------------------------------------------
\* The seconds the clock runs past the boundary.
MaxPastBoundary == 2

\* The calls of the helper in a behaviour.
MaxHelperCalls == 1

\* The boundary of the 1min interval, in seconds after the start of its window.
LaBoundary == IntervalLength("1min")

\* The levels of the last second of the window and of the second after it;
\* the seconds before measure 60 dB.
LastLevels == {6000, 8000}

\* The sequences the helper is called with.
HelperInputs ==
    { [i \in 1..8 |-> Fin(7000)],
      <<Fin(6000), Fin(8000)>>,
      <<Fin(8000)>>,
      <<Fin(6000), NaN, Fin(8000)>>,
      <<NaN>> }

\* The values of the rows with the timestamps ts, in the order of the table.
LevelsOf(levels, ts) ==
    [i \in 1..Cardinality(ts) |->
        Fin(levels[CHOOSE t \in ts : Cardinality({u \in ts : u < t}) = i - 1])]

LaeqIdle ==
    /\ la_clock = 0
    /\ la_levels = <<>>
    /\ la_source = {}
    /\ la_pc = "none"
    /\ la_read = {}
    /\ la_target = {}
    /\ la_helper = <<>>

\* The last second of a window: the rows of the seconds before it are
\* written, the scheduler waits for the boundary.
LaeqStart ==
    /\ la_clock = LaBoundary - 1
    /\ \E last, after \in LastLevels :
           la_levels = [t \in 0..LaBoundary |->
                           IF t = LaBoundary - 1 THEN last
                           ELSE IF t = LaBoundary THEN after ELSE 6000]
    /\ la_source = 0..(LaBoundary - 2)
    /\ la_pc = "waiting"
    /\ la_read = {}
    /\ la_target = {}
    /\ la_helper = <<>>

\* A second passes.
LaeqAdvance ==
    /\ la_pc # "none"
    /\ la_clock < LaBoundary + MaxPastBoundary
    /\ la_clock' = la_clock + 1
    /\ UNCHANGED <<syncVars, appVars, notLaeqVars, la_levels, la_source, la_pc, la_read,
                   la_target, la_helper>>

\* acoustic_stream.py 88-124: the row of a second is written once the
\* second has ended, the rows in the order of their seconds.
SamplerWritesRow(t) ==
    /\ la_pc # "none"
    /\ t \in DOMAIN la_levels
    /\ t \notin la_source
    /\ \A u \in 0..(t - 1) : u \in la_source
    /\ la_clock >= t + 1
    /\ la_source' = la_source \cup {t}
    /\ UNCHANGED <<syncVars, appVars, notLaeqVars, la_clock, la_levels, la_pc, la_read,
                   la_target, la_helper>>

\* time_manager.py 23-28: a tick reads the boundary second and notifies the
\* 1min handler.
BoundaryTick ==
    /\ la_pc = "waiting"
    /\ la_clock = LaBoundary
    /\ la_pc' = "notified"
    /\ UNCHANGED <<syncVars, appVars, notLaeqVars, la_clock, la_levels, la_source, la_read,
                   la_target, la_helper>>

\* aggregate_data 27-39: the rows of the source table between start_time and
\* end_time are fetched, their LAeq is computed, rounded and stored with the
\* timestamp start_time.
AggregateData ==
    /\ la_pc = "notified"
    /\ LET start_time == 0
           end_time == LaBoundary
           fetched == fetch_records(la_source, start_time, end_time)
           laeq_value == LAeqAggregator_calculate_laeq(LevelsOf(la_levels, fetched))
       IN  /\ la_read' = fetched
           /\ la_target' = IF laeq_value # None
                            THEN la_target \cup {<<start_time, laeq_value>>}
                            ELSE la_target
    /\ la_pc' = "done"
    /\ UNCHANGED <<syncVars, appVars, notLaeqVars, la_clock, la_levels, la_source, la_helper>>

\* acoustic_stream.py 104: the sampler calls the helper.
HelperCall(sound_levels) ==
    /\ la_pc # "none"
    /\ Len(la_helper) < MaxHelperCalls
    /\ la_helper' = Append(la_helper, <<sound_levels, calculate_laeq(sound_levels)>>)
    /\ UNCHANGED <<syncVars, appVars, notLaeqVars, la_clock, la_levels, la_source, la_pc,
                   la_read, la_target>>

\* ------------------------------------------------------------------------
\* The 24h boundary: the Lden handler and the uncertainty handler
\* (time_manager.py _notify_subscribers, laeq_aggregator.py aggregate_lden,
\* incertitude_calculator.py notifyAboutInterval)
\* ------------------------------------------------------------------------
\* The seconds a handler is late after its sleep.
MaxHandlerLate == 2

\* incertitude_calculator.py 25: the safety wait.
UncGrace == 25

\* The time a handler of the 24h interval sleeps before it works.
GraceOf(subscriber) == IF subscriber = "LAeq" THEN LdenGrace ELSE UncGrace

GraceIdle ==
    /\ gr_subscribers = <<>>
    /\ gr_clock = 0
    /\ gr_todo = <<>>
    /\ gr_handler = <<>>
    /\ gr_has_data = FALSE
    /\ gr_lden = "pending"
    /\ gr_read = "none"

\* _tick 23-28 and _notify_subscribers 30-41 at a 24h boundary: the LAeq
\* aggregator and the uncertainty aggregator have subscribed in the order in
\* which they were loaded.
GraceStart ==
    /\ gr_subscribers \in {<<"LAeq", "Incertitude">>, <<"Incertitude", "LAeq">>}
    /\ gr_clock = 0
    /\ gr_todo = gr_subscribers
    /\ gr_handler = <<>>
    /\ gr_has_data \in BOOLEAN
    /\ gr_lden = "pending"
    /\ gr_read = "none"

\* A second passes.
GraceAdvance ==
    /\ gr_subscribers # <<>>
    /\ gr_clock < LdenGrace + UncGrace + MaxHandlerLate
    /\ gr_handler # <<>> => gr_clock < gr_handler[2] + MaxHandlerLate
    /\ gr_clock' = gr_clock + 1
    /\ UNCHANGED <<syncVars, appVars, notGraceVars, gr_subscribers, gr_todo, gr_handler,
                   gr_has_data, gr_lden, gr_read>>

\* _notify_subscribers 43-47: the handler of the next subscriber is awaited;
\* it begins with its sleep.
NotifyNext ==
    /\ gr_todo # <<>>
    /\ gr_handler = <<>>
    /\ gr_handler' = <<Head(gr_todo), gr_clock + GraceOf(Head(gr_todo))>>
    /\ gr_todo' = Tail(gr_todo)
    /\ UNCHANGED <<syncVars, appVars, notGraceVars, gr_subscribers, gr_clock, gr_has_data,
                   gr_lden, gr_read>>

\* aggregate_lden 48-66: after its sleep the LAeq handler computes the
\* levels and writes the Lden row, or logs that it cannot.
AggregateLden ==
    /\ gr_handler # <<>>
    /\ gr_handler[1] = "LAeq"
    /\ gr_clock >= gr_handler[2]
    /\ gr_lden' = IF gr_has_data THEN "written" ELSE "nothing"
    /\ gr_handler' = <<>>
    /\ UNCHANGED <<syncVars, appVars, notGraceVars, gr_subscribers, gr_clock, gr_todo,
                   gr_has_data, gr_read>>

\* incertitude_calculator.py 25-34: after its sleep the uncertainty handler
\* reads the Lden row of the boundary.
ReadLdenComponents ==
    /\ gr_handler # <<>>
    /\ gr_handler[1] = "Incertitude"
    /\ gr_clock >= gr_handler[2]
    /\ gr_read' = IF gr_lden = "written" THEN "row" ELSE "no row"
    /\ gr_handler' = <<>>
    /\ UNCHANGED <<syncVars, appVars, notGraceVars, gr_subscribers, gr_clock, gr_todo,
                   gr_has_data, gr_lden>>

\* ------------------------------------------------------------------------
\* Stopping the audio recorder (main.py 121-131 and 189-190,
\* acquisition_manager.py stop and cleanup_streams, audio_stream.py cleanup)
\* ------------------------------------------------------------------------
\* The chunks a recorder writes to one file, and the files it rotates.
MaxFileChunks == 3

MaxRotations == 3

CleanupIdle ==
    /\ cu_pc = "none"
    /\ cu_source = "none"
    /\ cu_recorder = "none"
    /\ cu_wav_open = FALSE
    /\ cu_chunks = 0
    /\ cu_staged = 0
    /\ cu_after = 0

\* AudioStream.start 42-48: the recorder runs; no file is open before the
\* first chunk.
CleanupStart ==
    /\ cu_pc = "running"
    /\ cu_source = "none"
    /\ cu_recorder = "reading"
    /\ cu_wav_open = FALSE
    /\ cu_chunks = 0
    /\ cu_staged = 0
    /\ cu_after = 0

\* _run_loop 78-86, update_timestamp and write: a chunk is read; with no
\* file open, or in a new minute, the file is rotated; the chunk is
\* written.
RecorderWrites(new_minute) ==
    /\ cu_recorder = "reading"
    /\ IF cu_wav_open /\ new_minute
       THEN /\ cu_staged < MaxRotations
            /\ cu_staged' = cu_staged + 1
            /\ cu_chunks' = 1
       ELSE /\ cu_chunks < MaxFileChunks
            /\ cu_chunks' = cu_chunks + 1
            /\ UNCHANGED cu_staged
    /\ cu_wav_open' = TRUE
    /\ cu_after' = IF cu_pc \in {"raised", "returned"} /\ cu_after < MaxFileChunks
                   THEN cu_after + 1 ELSE cu_after
    /\ UNCHANGED <<syncVars, appVars, notCleanupVars, cu_pc, cu_source, cu_recorder>>

\* main.py 121-131 (disconnect callback) and 189-190 (shutdown):
\* AcquisitionManager.stop 147-154 looks up agmanager.stop(), then
\* cleanup_streams 129-145 awaits AudioStream.cleanup 101-117, which cancels
\* the recorder at its await and closes and transcodes the open file. The
\* AttributeError of a missing method leaves stop() before cleanup_streams.
StopRecorder(source) ==
    /\ cu_pc = "running"
    /\ cu_source' = source
    /\ IF HasMethod(AggregationManagerMethods, "stop")
       THEN /\ cu_recorder' = "stopped"
            /\ cu_wav_open' = FALSE
            /\ cu_staged' = IF cu_wav_open THEN cu_staged + 1 ELSE cu_staged
            /\ cu_chunks' = 0
            /\ cu_pc' = "returned"
       ELSE /\ cu_pc' = "raised"
            /\ UNCHANGED <<cu_recorder, cu_wav_open, cu_staged, cu_chunks>>
    /\ UNCHANGED <<syncVars, appVars, notCleanupVars, cu_after>>

\* main.py 230-238: after a shutdown asyncio.run cancels the tasks that are
\* left; the recorder leaves its loop (audio_stream.py 88-90) and nothing
\* closes its file.
EventLoopCloses ==
    /\ cu_source = "shutdown"
    /\ cu_pc = "raised"
    /\ cu_recorder = "reading"
    /\ cu_recorder' = "stopped"
    /\ UNCHANGED <<syncVars, appVars, notCleanupVars, cu_pc, cu_source, cu_wav_open,
                   cu_chunks, cu_staged, cu_after>>

\* ------------------------------------------------------------------------
\* The watcher of updated_parameters (database/mongodb/microphone_details.py)
\* ------------------------------------------------------------------------
\* Number of remote updates of updated_parameters in a behaviour.
MaxRemoteUpdates == 2

\* The values a remote update sets updated_parameters to.
RemoteValues == {"v1", "v2"}

WatcherIdle ==
    /\ wt_pc = "none"
    /\ wt_stream = <<>>
    /\ wt_change = "nulls"
    /\ wt_updated = "nulls"
    /\ wt_parameters = "old"
    /\ wt_file = "old"
    /\ wt_flag = FALSE
    /\ wt_remote = 0
    /\ wt_log = <<>>

\* watch_document_for_parameters_change 254-267: the change stream is open
\* and the loop awaits the first event; parameters.json may be missing.
WatcherStart ==
    /\ wt_pc = "idle"
    /\ wt_stream = <<>>
    /\ wt_change = "nulls"
    /\ wt_updated = "nulls"
    /\ wt_parameters = "old"
    /\ wt_file \in {"old", "missing"}
    /\ wt_flag = FALSE
    /\ wt_remote = 0
    /\ wt_log = <<>>

\* The pipeline of the change stream 256-264: an update of the device
\* document that changes updated_parameters is an event of the stream.
RemoteUpdate(v) ==
    /\ wt_pc # "none"
    /\ wt_remote < MaxRemoteUpdates
    /\ v # wt_updated
    /\ wt_remote' = wt_remote + 1
    /\ wt_updated' = v
    /\ wt_stream' = Append(wt_stream, v)
    /\ UNCHANGED <<syncVars, appVars, notWatcherVars, wt_pc, wt_change, wt_parameters, wt_file,
                   wt_flag, wt_log>>

\* watch_document_for_parameters_change 267-271 and update_parameters
\* 228-230: the next event is taken; its updated_parameters is a dictionary
\* with keys, so it is truthy; update_parameters returns at once when all its
\* values are None and awaits its update_one otherwise.
TakeChange ==
    /\ wt_pc = "idle"
    /\ wt_stream # <<>>
    /\ wt_change' = Head(wt_stream)
    /\ wt_stream' = Tail(wt_stream)
    /\ wt_pc' = IF Head(wt_stream) = "nulls" THEN "reset" ELSE "update_parameters"
    /\ UNCHANGED <<syncVars, appVars, notWatcherVars, wt_updated, wt_parameters, wt_file,
                   wt_flag, wt_remote, wt_log>>

\* update_parameters 232-252: parameters of the document is set to the new
\* values; an exception of update_one is logged.
UpdateParameters(db_ok) ==
    /\ wt_pc = "update_parameters"
    /\ wt_parameters' = IF db_ok THEN wt_change ELSE wt_parameters
    /\ wt_pc' = "reset"
    /\ UNCHANGED <<syncVars, appVars, notWatcherVars, wt_stream, wt_change, wt_updated, wt_file,
                   wt_flag, wt_remote, wt_log>>

\* handle_updated_parameters 189-217 after the reset: what it appends to the
\* effects: nothing when os.remove raises, the write of the new file when
\* it succeeds, and the callback, as a task, unless the flag is set.
handle_updated_parameters(log, deleted, written, in_progress) ==
    log \o (IF deleted /\ written
            THEN <<"write">> \o (IF in_progress THEN <<>> ELSE <<"restart">>)
            ELSE <<>>)

\* reset_updated_parameters 169-187 with handle_updated_parameters 189-217:
\* update_one sets updated_parameters to nulls; when that modified the
\* document, which is again an event of the stream, parameters.json is
\* deleted and written anew with the values of the event, and the callback is
\* created as a task unless one is in progress.
ResetUpdatedParameters(db_ok, remove_ok, write_ok) ==
    /\ wt_pc = "reset"
    /\ LET modified == db_ok /\ wt_updated # "nulls"
           deleted == modified /\ wt_file # "missing" /\ remove_ok
           written == deleted /\ write_ok
       IN  /\ wt_updated' = IF db_ok THEN "nulls" ELSE wt_updated
           /\ wt_stream' = IF modified THEN Append(wt_stream, "nulls") ELSE wt_stream
           /\ wt_file' = IF written THEN wt_change
                         ELSE IF deleted THEN "missing" ELSE wt_file
           /\ wt_flag' = IF written THEN TRUE ELSE wt_flag
           /\ wt_log' = IF modified
                        THEN handle_updated_parameters(Append(wt_log, "reset"), deleted,
                                                       written, wt_flag)
                        ELSE wt_log
    /\ wt_pc' = "idle"
    /\ UNCHANGED <<syncVars, appVars, notWatcherVars, wt_change, wt_parameters, wt_remote>>

\* handle_callback 219-224: the callback has returned or raised, the flag is
\* cleared.
HandleCallbackReturns ==
    /\ wt_flag
    /\ wt_flag' = FALSE
    /\ UNCHANGED <<syncVars, appVars, notWatcherVars, wt_pc, wt_stream, wt_change, wt_updated,
                   wt_parameters, wt_file, wt_remote, wt_log>>

\* ------------------------------------------------------------------------
\* The restart by the disconnect callback (main.py 102-169)
\* ------------------------------------------------------------------------
\* Restart attempts and acquisition tasks that raise in a behaviour.
MaxRestartFailures == 2

\* Invocations of the callback in a behaviour.
MaxCallbacks == 2

RestartIdle ==
    /\ rs_pc = "none"
    /\ rs_task = "returned"
    /\ rs_running = FALSE
    /\ rs_detector = FALSE
    /\ rs_counter = 0
    /\ rs_event = FALSE
    /\ rs_attempts = 0
    /\ rs_failures = 0
    /\ rs_calls = 0

\* The callback has just been invoked by the presence loop, which cleared
\* the event; the task of AcquisitionManager.start has returned, the
\* pipeline and the detector run.
RestartBegin ==
    /\ rs_pc = "begin"
    /\ rs_task = "returned"
    /\ rs_running = TRUE
    /\ rs_detector = TRUE
    /\ rs_counter = 0
    /\ rs_event = FALSE
    /\ rs_attempts = 0
    /\ rs_failures = 0
    /\ rs_calls = 1

\* main.py 122-127: acquisition_task.cancel() and await acquisition_task
\* inside try/except asyncio.CancelledError: the await of a task that ended
\* with an exception raises that exception again, and it is not caught.
await_cancelled(task) == IF task = "failed" THEN "raised" ELSE "wait_event"

\* main.py 108-132: the detector is stopped and its task cancelled, the
\* acquisition task is cancelled and awaited, the manager is stopped, and
\* the invocation waits for the device.
StopBeforeRestart ==
    /\ rs_pc = "begin"
    /\ rs_detector' = FALSE
    /\ rs_counter' = 0
    /\ rs_running' = FALSE
    /\ rs_pc' = await_cancelled(rs_task)
    /\ rs_attempts' = 0
    /\ UNCHANGED <<syncVars, appVars, notRestartVars, rs_task, rs_event, rs_failures, rs_calls>>

\* monitor_status.py 57-63: the presence loop finds the device, sets the
\* path and the event.
DeviceReconnects ==
    /\ ~rs_event
    /\ rs_event' = TRUE
    /\ UNCHANGED <<syncVars, appVars, notRestartVars, rs_pc, rs_task, rs_running, rs_detector,
                   rs_counter, rs_attempts, rs_failures, rs_calls>>

\* main.py 137-143: the wait for the event and for serial_path returns.
DeviceWaitReturns ==
    /\ rs_pc = "wait_event"
    /\ rs_event
    /\ rs_pc' = "attempt"
    /\ UNCHANGED <<syncVars, appVars, notRestartVars, rs_task, rs_running, rs_detector,
                   rs_counter, rs_event, rs_attempts, rs_failures, rs_calls>>

\* main.py 146-169: one attempt. When nothing raises, the task of the new
\* manager's start() and the new detector are created and the loop is left;
\* when the constructor of the device or set_device raises, the attempt is
\* logged and retried after 5 s.
RestartAttempt(ok) ==
    /\ rs_pc = "attempt"
    /\ rs_attempts' = rs_attempts + 1
    /\ IF ok
       THEN /\ rs_task' = "running"
            /\ rs_detector' = TRUE
            /\ rs_counter' = 0
            /\ rs_pc' = "returned"
            /\ UNCHANGED rs_failures
       ELSE /\ rs_failures < MaxRestartFailures
            /\ rs_failures' = rs_failures + 1
            /\ rs_pc' = "sleep"
            /\ UNCHANGED <<rs_task, rs_detector, rs_counter>>
    /\ UNCHANGED <<syncVars, appVars, notRestartVars, rs_running, rs_event, rs_calls>>

\* main.py 169: asyncio.sleep(5) returns and the loop starts over.
RetrySleepReturns ==
    /\ rs_pc = "sleep"
    /\ rs_pc' = "attempt"
    /\ UNCHANGED <<syncVars, appVars, notRestartVars, rs_task, rs_running, rs_detector,
                   rs_counter, rs_event, rs_attempts, rs_failures, rs_calls>>

\* AcquisitionManager.start 45-65 in its task: it returns with the streams
\* and the scheduler started, or load_config, initialize_device (67-79) or
\* the start of the aggregation manager raises and the task ends with the
\* exception, which nothing awaits.
AcquisitionTaskEnds(ok) ==
    /\ rs_task = "running"
    /\ rs_pc # "begin"
    /\ IF ok
       THEN /\ rs_task' = "returned"
            /\ rs_running' = TRUE
            /\ UNCHANGED rs_failures
       ELSE /\ rs_failures < MaxRestartFailures
            /\ rs_failures' = rs_failures + 1
            /\ rs_task' = "failed"
            /\ UNCHANGED rs_running
    /\ UNCHANGED <<syncVars, appVars, notRestartVars, rs_pc, rs_detector, rs_counter, rs_event,
                   rs_attempts, rs_calls>>

\* AudioStallDetector.start 41-64: a scan of the detector. While the
\* recorder runs a newer file is found; otherwise the counter goes up, and at
\* max_stall_scans the callback is invoked unless the flag of the detector is
\* set, which it is while the invocation it started has not ended.
StallScan ==
    /\ rs_detector
    /\ IF rs_running
       THEN /\ rs_counter' = 0
            /\ UNCHANGED <<rs_pc, rs_calls>>
       ELSE IF rs_counter + 1 >= max_stall_scans /\ rs_pc \in {"returned", "raised"}
                 /\ rs_calls < MaxCallbacks
            THEN /\ rs_counter' = rs_counter + 1
                 /\ rs_pc' = "begin"
                 /\ rs_calls' = rs_calls + 1
            ELSE /\ rs_counter' = Min(rs_counter + 1, max_stall_scans)
                 /\ UNCHANGED <<rs_pc, rs_calls>>
    /\ UNCHANGED <<syncVars, appVars, notRestartVars, rs_task, rs_running, rs_detector,
                   rs_event, rs_attempts, rs_failures>>

\* ------------------------------------------------------------------------
\* The stall detector beside the recorder and the uploader, in time
\* (monitoring/audio_stall_detector.py, database/mongodb/audio_transfer.py)
\* ------------------------------------------------------------------------
\* The time at which a behaviour ends, in scan intervals.
MaxWatchTicks == 40

\* asyncio.sleep(40) of AudioTransfer.run, in seconds.
UploaderSleep == 40

\* The seconds a failing upload takes before it raises.
UploadLatencies == {0, 20}

\* A minute, in scan intervals.
MinuteScans == 60 \div scan_interval

WatchIdle ==
    /\ wd_time = 0
    /\ wd_folder = {}
    /\ wd_stuck = FALSE
    /\ wd_staged = 0
    /\ wd_next_stage = 0
    /\ wd_next_scan = 0
    /\ wd_last_seen = <<>>
    /\ wd_counter = 0
    /\ wd_invoked = FALSE
    /\ up_pc = "none"
    /\ up_until = 0
    /\ up_files = {}

\* The detector was just created (main.py 160-161), the recorder stages its
\* first file in a minute, the uploader is somewhere in its sleep.
WatchStart ==
    /\ wd_time = 0
    /\ wd_folder = {}
    /\ wd_stuck \in BOOLEAN
    /\ wd_staged = 0
    /\ wd_next_stage = MinuteScans
    /\ wd_next_scan = 0
    /\ wd_last_seen = <<>>
    /\ wd_counter = 0
    /\ wd_invoked = FALSE
    /\ up_pc = "sleep"
    /\ up_until \in 0..(UploaderSleep \div scan_interval)
    /\ up_files = {}

\* WavWriter.close 199-205: at the rotation of the minute the file that was
\* open is exported to the audio folder.
RecorderStages ==
    /\ wd_next_stage = wd_time
    /\ wd_folder' = wd_folder \cup {wd_staged + 1}
    /\ wd_staged' = wd_staged + 1
    /\ wd_next_stage' = wd_time + MinuteScans
    /\ UNCHANGED <<syncVars, appVars, notWatchVars, wd_time, wd_stuck, wd_next_scan,
                   wd_last_seen, wd_counter, wd_invoked, up_pc, up_until, up_files>>

\* AudioStallDetector.start 41-64: one scan. A timestamp newer than the last
\* one seen resets the counter; the same or none adds one; at
\* max_stall_scans the callback is invoked, and it stops the detector.
WatchdogScans ==
    /\ wd_next_scan = wd_time
    /\ ~wd_invoked
    /\ LET files == wd_folder \cup (IF wd_stuck THEN {0} ELSE {})
           latest_ts == IF files = {} THEN <<>>
                        ELSE <<CHOOSE x \in files : \A y \in files : y <= x>>
           newer == IF latest_ts = <<>> THEN FALSE
                    ELSE IF wd_last_seen = <<>> THEN TRUE
                    ELSE latest_ts[1] > wd_last_seen[1]
           counter == IF newer THEN 0 ELSE wd_counter + 1
       IN  /\ wd_last_seen' = IF newer THEN latest_ts ELSE wd_last_seen
           /\ wd_counter' = counter
           /\ wd_invoked' = (counter >= max_stall_scans)
    /\ wd_next_scan' = wd_time + 1
    /\ UNCHANGED <<syncVars, appVars, notWatchVars, wd_time, wd_folder, wd_stuck, wd_staged,
                   wd_next_stage, up_pc, up_until, up_files>>

\* AudioTransfer.run 194-205 and process_files 136-138: the sleep has
\* returned and the folder is listed.
UploaderLists ==
    /\ up_pc = "sleep"
    /\ up_until = wd_time
    /\ up_files' = wd_folder
    /\ up_pc' = "listed"
    /\ UNCHANGED <<syncVars, appVars, notWatchVars, wd_time, wd_folder, wd_stuck, wd_staged,
                   wd_next_stage, wd_next_scan, wd_last_seen, wd_counter, wd_invoked, up_until>>

\* process_and_upload_file 142-177 for every file listed, then sleep(40):
\* the files of the recorder are uploaded or gated and removed; the upload of
\* the older file raises after its latency and the file stays.
UploaderProcesses(latency) ==
    /\ up_pc = "listed"
    /\ IF wd_stuck THEN TRUE ELSE latency = 0
    /\ wd_folder' = wd_folder \ up_files
    /\ up_files' = {}
    /\ up_until' = wd_time + ((latency + UploaderSleep) \div scan_interval)
    /\ up_pc' = "sleep"
    /\ UNCHANGED <<syncVars, appVars, notWatchVars, wd_time, wd_stuck, wd_staged,
                   wd_next_stage, wd_next_scan, wd_last_seen, wd_counter, wd_invoked>>

\* A scan interval passes once everything due now has run.
WatchTick ==
    /\ wd_time < MaxWatchTicks
    /\ wd_next_stage > wd_time
    /\ IF wd_invoked THEN TRUE ELSE wd_next_scan > wd_time
    /\ up_pc = "sleep"
    /\ up_until > wd_time
    /\ wd_time' = wd_time + 1
    /\ UNCHANGED <<syncVars, appVars, notWatchVars, wd_folder, wd_stuck, wd_staged,
                   wd_next_stage, wd_next_scan, wd_last_seen, wd_counter, wd_invoked,
                   up_pc, up_until, up_files>>

UnitsIdle == ValueIdle /\ SchedIdle /\ LdenIdle /\ UncIdle /\ AudioIdle /\ TransferIdle /\ SupervisorIdle /\ StallIdle /\ StartupIdle /\ ShutdownIdle /\ LaeqIdle /\ GraceIdle /\ CleanupIdle /\ WatcherIdle /\ RestartIdle /\ WatchIdle

\* ------------------------------------------------------------------------
\* RemoteSync: specification
\* ------------------------------------------------------------------------
Init == SyncInit /\ AppStart /\ device_present = FALSE /\ UnitsIdle

Next ==
    \/ \E t \in Tables : InsertRow(t)
    \/ Connect
    \/ ConnectionLost
    \/ RunStart
    \/ RunCancel
    \/ \E t \in Tables : Rediscover(t)
    \/ \E t \in Tables : FetchTable(t)
    \/ ProcessMessages
    \/ TransferRun
    \/ \E i \in 1..MaxQueue : ProcessPrepare(i)
    \/ \E i \in 1..MaxQueue : ProcessPrepareFail(i)
    \/ \E i \in 1..MaxQueue : ProcessInsert(i)
    \/ \E i \in 1..MaxQueue : ProcessInsertFail(i)

Spec == Init /\ [][Next]_vars

\* ------------------------------------------------------------------------
\* RemoteSync: properties
\* ------------------------------------------------------------------------
\* The document the uploader builds from a local row.
DocumentOfRow(r) == [timestamp |-> r.timestamp, value |-> r.value]

\* The batches of table t that were fetched and are neither confirmed nor
\* failed: insert messages queued or being processed, successes not yet
\* consumed.
Outstanding(t) ==
    Cardinality({i \in DOMAIN data_queue :
                    data_queue[i].action = "insert" /\ data_queue[i].table_name = t})
    + Cardinality({i \in DOMAIN tasks :
                    tasks[i].action = "insert" /\ tasks[i].table_name = t})
    + Cardinality({i \in DOMAIN status_queue : status_queue[i].table_name = t})

\* C1: every row with is_sent = 1 has a document with its timestamp and
\* value in the remote collection of its table.
C1_SentRowsAreRemote ==
    \A t \in Tables : \A i \in DOMAIN localRows[t] :
        localRows[t][i].is_sent = 1 => remote[t][DocumentOfRow(localRows[t][i])] > 0

\* C2: at most one fetched batch per table is outstanding.
C2_SingleOutstandingBatch ==
    \A t \in Tables : sync_state = "running" => Outstanding(t) <= 1

\* C3: no local row is inserted into its remote collection more than once.
C3_NoDoubleInsert ==
    \A t \in Tables : \A d \in AllDocuments : remote[t][d] <= 1

\* The rows of table t that queued or running insert messages carry.
DataInFlight(t) ==
    UNION {Range(Decompress(data_queue[i].payload)) :
              i \in {j \in DOMAIN data_queue :
                        data_queue[j].action = "insert" /\ data_queue[j].table_name = t}}

\* C5: a row that has is_sent = 1 is not fetched again and not inserted
\* into the remote again.
C5_SentRowsNotResent ==
    [][\A t \in Tables : \A i \in DOMAIN localRows[t] :
          LET r == localRows[t][i]
          IN  r.is_sent = 1 =>
                /\ remote'[t][DocumentOfRow(r)] = remote[t][DocumentOfRow(r)]
                /\ <<r.timestamp, r.value>> \in DataInFlight(t)'
                      => <<r.timestamp, r.value>> \in DataInFlight(t)]_vars

\* No table holds a row with is_sent = 0.
NoUnsentRows ==
    \A t \in Tables : \A i \in DOMAIN localRows[t] : localRows[t][i].is_sent = 1

\* C6: with no unsent row, a fetch of any table enqueues nothing, inserts
\* nothing into the remote and changes no local row; it leaves the whole
\* state as it found it, so a second cycle does the same as the first.
C6_FetchWithoutNewDataIsNoOp ==
    [][\A t \in Tables : (NoUnsentRows /\ FetchTable(t)) =>
          UNCHANGED <<data_queue, remote, localRows, pending_ids, last_success>>]_vars

\* C6 witness: every row is sent and the fetch of a discovered table whose
\* last batch succeeded is enabled.
C6_Witness ==
    \E t \in Tables :
        /\ sync_state = "running"
        /\ t \in db_table_map
        /\ last_success[t]
        /\ InFlight < MaxQueue
        /\ Len(localRows[t]) = MaxRows
        /\ NoUnsentRows

\* C38: every step keeps the rows of a table as they are but for is_sent,
\* appends rows only with is_sent = 0 and never sets is_sent of a row back to
\* 0; a step that sets is_sent of a row to 1 is the one that takes an
\* insert_success message of that table from the status queue, and it
\* appends nothing.
C38_IsSentOnlySetByConfirmation ==
    [][\A t \in Tables :
          LET old == localRows[t]
              new == localRows'[t]
          IN  /\ Len(new) >= Len(old)
              /\ \A i \in DOMAIN old :
                     /\ [new[i] EXCEPT !.is_sent = 0] = [old[i] EXCEPT !.is_sent = 0]
                     /\ new[i].is_sent >= old[i].is_sent
              /\ \A i \in DOMAIN new \ DOMAIN old : new[i].is_sent = 0
              /\ (\E i \in DOMAIN old : new[i].is_sent # old[i].is_sent) =>
                     /\ status_queue # <<>>
                     /\ Head(status_queue).action = "insert_success"
                     /\ Head(status_queue).table_name = t
                     /\ status_queue' = Tail(status_queue)
                     /\ Len(new) = Len(old)]_vars

\* A row was marked sent and a row appended by a producer is still unsent.
C38_Witness ==
    \E t \in Tables :
        /\ Len(localRows[t]) = 2
        /\ localRows[t][1].is_sent = 1
        /\ localRows[t][2].is_sent = 0

\* ------------------------------------------------------------------------
\* RemoteSync under fair scheduling: every task of the synchronizer that
\* can run does run, and the remote store comes back after an outage. The
\* producers, the outages and the failures are not forced.
\* ------------------------------------------------------------------------
SyncFairness ==
    /\ WF_vars(Connect)
    /\ WF_vars(RunStart)
    /\ WF_vars(RunCancel)
    /\ WF_vars(ProcessMessages)
    /\ WF_vars(TransferRun)
    /\ \A t \in Tables : SF_vars(Rediscover(t)) /\ SF_vars(FetchTable(t))
    /\ \A i \in 1..MaxQueue : WF_vars(ProcessPrepare(i)) /\ WF_vars(ProcessInsert(i))

LiveSpec == Init /\ [][Next]_vars /\ SyncFairness

\* C4: every row appended to a local table is eventually in the remote
\* store and marked is_sent = 1.
C4_EveryRowEventuallySynced ==
    \A t \in Tables : \A id \in 1..MaxRows :
        (Len(localRows[t]) >= id) ~>
            (/\ Len(localRows[t]) >= id
             /\ localRows[t][id].is_sent = 1
             /\ remote[t][DocumentOfRow(localRows[t][id])] > 0)

\* ------------------------------------------------------------------------
\* Application: specification
\*
\* The process begins either in Application.start, or with the local pool
\* manager already started through the method it defines (manager_start),
\* which is where the acquisition pipeline can run from.
\* ------------------------------------------------------------------------
PoolManagerStarted ==
    /\ app_pc = "mysql_connecting"
    /\ mongo_task_started = TRUE
    /\ mysql_pool = FALSE
    /\ mysql_delay = 1
    /\ pool_failures = 0
    /\ monitor_pc = "off"
    /\ device_present \in BOOLEAN
    /\ device_connected_event = FALSE
    /\ unplugs = 0
    /\ callback_in_progress = FALSE
    /\ cb_pc = "idle"
    /\ audio_detector = FALSE
    /\ acquisition_manager = 0
    /\ acquisition_task = [g \in Managers |-> "none"]
    /\ streams = [g \in Managers |-> NoStream]
    /\ schedulers = [g \in Managers |-> NoScheduler]
    /\ loop_owner = 0
    /\ now = StartSecond
    /\ aggRows = <<>>
    /\ sampled_seconds = {}

AppInit == SyncInit /\ (AppStart \/ PoolManagerStarted) /\ UnitsIdle

AppNext ==
    \/ ApplicationStart
    \/ MySQLAttemptFail
    \/ MySQLPoolCreated
    \/ AppConnect
    \/ StartAcquisition
    \/ DevicePlug
    \/ DeviceUnplug
    \/ MonitorFindDevice
    \/ MonitorDetectLoss
    \/ ScheduledReset
    \/ CallbackBegin
    \/ CallbackStopAcquisition
    \/ CallbackRestart
    \/ \E g \in Managers : AcquisitionManagerStart(g)
    \/ \E g \in Managers : StreamAligned(g)
    \/ \E g \in Managers : \E finite \in BOOLEAN : ReadOk(g, finite)
    \/ \E g \in Managers : ReadFail(g)
    \/ \E g \in Managers : SleepReturn(g)
    \/ \E g \in Managers : EndOfReads(g)
    \/ \E g \in Managers : InsertDone(g)
    \/ \E g \in Managers : InsertFail(g)
    \/ \E g \in Managers : SchedulerTick(g)
    \/ Tick

AppSpec == AppInit /\ [][AppNext]_vars

\* ------------------------------------------------------------------------
\* Application under fair scheduling: every task that can run does run and
\* the clock advances. Which reads fail, whether an insertion fails and what
\* the device and the remote store do is not forced.
\* ------------------------------------------------------------------------
StreamRuns(g) ==
    \/ \E finite \in BOOLEAN : ReadOk(g, finite)
    \/ ReadFail(g)
    \/ EndOfReads(g)

StreamResumes(g) ==
    \/ StreamAligned(g)
    \/ SleepReturn(g)
    \/ InsertDone(g)
    \/ InsertFail(g)

AppFairness ==
    /\ WF_vars(ApplicationStart)
    /\ WF_vars(MySQLPoolCreated)
    /\ WF_vars(MonitorFindDevice)
    /\ WF_vars(MonitorDetectLoss)
    /\ WF_vars(StartAcquisition)
    /\ WF_vars(CallbackBegin)
    /\ WF_vars(CallbackStopAcquisition)
    /\ WF_vars(CallbackRestart)
    /\ WF_vars(Tick)
    /\ \A g \in Managers :
          /\ WF_vars(AcquisitionManagerStart(g))
          /\ WF_vars(StreamRuns(g))
          /\ SF_vars(StreamResumes(g))
          /\ SF_vars(SchedulerTick(g))

LiveAppSpec == AppInit /\ [][AppNext]_vars /\ AppFairness

\* ------------------------------------------------------------------------
\* Application: properties
\* ------------------------------------------------------------------------
\* C7: when the process starts in Application.start and the remote store is
\* never reachable, the local pool is eventually obtained and the presence
\* loop started, and whenever the device is connected a sampler and a
\* scheduler eventually run.
C7_AcquisitionStartsWithoutRemote ==
    (app_pc = "start" /\ [](~mongodb_connection_event)) =>
        /\ <>(mysql_pool /\ monitor_pc # "off")
        /\ [](device_connected_event =>
                <>(\E g \in Managers :
                      streams[g].pc \notin {"none", "done"} /\ schedulers[g].running))

\* C8: every second whose cycle collected all its samples and was not
\* cancelled has exactly one row in LAeq.
C8_OneRowPerSampledSecond ==
    \A s \in sampled_seconds : RowsAt(localRows["LAeq"], astimezone(s)) = 1

\* C9: no local table holds two rows for the same second or the same
\* interval boundary.
C9_NoDuplicateLocalRows ==
    /\ \A i, j \in DOMAIN localRows["LAeq"] :
          localRows["LAeq"][i].timestamp = localRows["LAeq"][j].timestamp => i = j
    /\ \A i, j \in DOMAIN aggRows :
          aggRows[i].timestamp = aggRows[j].timestamp => i = j

\* C10: a sampler that runs gives the event loop back: whatever reads fail,
\* it reaches a suspension point.
C10_SamplerReachesSuspensionPoint ==
    \A g \in Managers : (loop_owner = g) ~> (loop_owner = 0)

\* ------------------------------------------------------------------------
\* The stored value: specification and properties
\* ------------------------------------------------------------------------
AppIdle == AppStart /\ device_present = FALSE

ValueInit == SyncInit /\ AppIdle /\ ValueStart /\ SchedIdle /\ LdenIdle /\ UncIdle /\ AudioIdle /\ TransferIdle /\ SupervisorIdle /\ StallIdle /\ StartupIdle /\ ShutdownIdle /\ LaeqIdle /\ GraceIdle /\ CleanupIdle /\ WatcherIdle /\ RestartIdle /\ WatchIdle

ValueNext ==
    \/ StoreCycleValue
    \/ SkipCycleValue

ValueSpec == ValueInit /\ [][ValueNext]_vars

\* C11: every value the sampler inserts is finite and smaller than 10^3 in
\* absolute value.
C11_StoredValuesFiniteAndBounded ==
    \A i \in DOMAIN value_rows :
        /\ isfinite(value_rows[i].value)
        /\ value_rows[i].value.v < 100000
        /\ value_rows[i].value.v > 0 - 100000

\* ------------------------------------------------------------------------
\* The interval scheduler: specification
\* ------------------------------------------------------------------------
SchedInit == SyncInit /\ AppIdle /\ ValueIdle /\ SchedStart /\ LdenIdle /\ UncIdle /\ AudioIdle /\ TransferIdle /\ SupervisorIdle /\ StallIdle /\ StartupIdle /\ ShutdownIdle /\ LaeqIdle /\ GraceIdle /\ CleanupIdle /\ WatcherIdle /\ RestartIdle /\ WatchIdle

SchedNext ==
    \/ Advance
    \/ SamplerInsert
    \/ TmTick
    \/ \E raised \in BOOLEAN : TmInvoke(raised)
    \/ TmHandlerDone

SchedSpec == SchedInit /\ [][SchedNext]_vars

\* The tick that made invocation k has notified everybody it had to.
TickComplete(k) == tm_pc = "sleep" \/ current_time # invocations[k].tick

\* Invocation k was made for the pair p by the tick of invocation j.
InvokedFor(k, j, p) ==
    /\ invocations[k].tick = invocations[j].tick
    /\ invocations[k].interval = p.interval
    /\ invocations[k].subscriber = p.subscriber

\* C12: while the scheduler runs no second passes without a tick looking at
\* it, a subscriber is invoked only at a boundary of its interval, and never
\* twice for the same boundary.
C12_EverySecondExaminedOnce ==
    /\ missed = {}
    /\ \A k \in DOMAIN invocations :
           _is_interval(invocations[k].tick, invocations[k].interval)
    /\ \A k, l \in DOMAIN invocations :
           (k # l /\ invocations[k].interval = invocations[l].interval
                  /\ invocations[k].subscriber = invocations[l].subscriber)
               => invocations[k].end_time # invocations[l].end_time

\* C13: every subscriber a tick notifies is invoked within the second of
\* that tick, whatever time the handlers invoked before it take.
C13_SlowSubscriberDelaysNobody ==
    \A k \in DOMAIN invocations :
        invocations[k].at - invocations[k].tick < Res

\* C14: once the tick in which a handler raised is over, every subscriber
\* of every interval that tick had to notify has been invoked, and the
\* scheduler is still in its loop.
C14_ErrorDoesNotAffectOthers ==
    \A j \in DOMAIN invocations :
        (invocations[j].raised /\ TickComplete(j))
            => /\ tm_pc \in {"sleep", "notify", "handler"}
               /\ \A i \in DOMAIN Due(invocations[j].tick) :
                      \E k \in DOMAIN invocations :
                          InvokedFor(k, j, Due(invocations[j].tick)[i])

\* A handler that was not the last of its tick raised, the tick is over and
\* a later tick has run.
C14_Witness ==
    \E j \in DOMAIN invocations :
        /\ invocations[j].raised
        /\ j < Len(invocations)
        /\ invocations[j + 1].tick = invocations[j].tick
        /\ current_time > invocations[j].tick
        /\ tm_pc = "sleep"

\* C15: an invocation carries the second of its own tick as end and that
\* second less the length of the interval as start; a second no tick looked
\* at is the end of no invocation.
C15_NoBacklog ==
    \A k \in DOMAIN invocations :
        /\ invocations[k].end_time = Truncate(invocations[k].tick)
        /\ invocations[k].start_time =
               invocations[k].end_time - IntervalLength(invocations[k].interval)
        /\ invocations[k].end_time \notin missed

\* The second of a boundary passed between two ticks and the later tick is
\* over with nothing fired for it.
C15_MissedBoundaryNotReplayed ==
    \E b \in missed :
        /\ _is_interval(b * Res, "1min")
        /\ last_examined > b
        /\ tm_pc = "sleep"
        /\ \A k \in DOMAIN invocations : invocations[k].end_time # b

\* An invocation was made by a tick that ran in the middle of a second.
C15_Witness ==
    \E k \in DOMAIN invocations :
        /\ invocations[k].tick % Res # 0
        /\ invocations[k].interval = "24h"
        /\ tm_pc = "sleep"

\* C16: every row of the source table that belongs to the window ending at
\* a boundary was in the table when the LAeq handler of that boundary read
\* it.
C16_FinerRowsWrittenBeforeCoarserRead ==
    \A k \in DOMAIN invocations :
        invocations[k].subscriber = "LAeq"
            => \A ts \in agg_tables[SourceTable(invocations[k].interval)] :
                   (ts >= invocations[k].start_time /\ ts < invocations[k].end_time)
                       => ts \in invocations[k].fetched

\* ------------------------------------------------------------------------
\* The day-evening-night level: specification
\* ------------------------------------------------------------------------
LdenInit == SyncInit /\ AppIdle /\ ValueIdle /\ SchedIdle /\ LdenCalled /\ UncIdle /\ AudioIdle /\ TransferIdle /\ SupervisorIdle /\ StallIdle /\ StartupIdle /\ ShutdownIdle /\ LaeqIdle /\ GraceIdle /\ CleanupIdle /\ WatcherIdle /\ RestartIdle /\ WatchIdle

LdenNext ==
    \/ InsertLden
    \/ LdenFailed

LdenSpec == LdenInit /\ [][LdenNext]_vars

\* The rows of a source table within the range of its component.
DayRows ==
    fetch_records(src_rows["LAeq1h"], replace_hms(LdenStartTime, 7, 0),
                  replace_hms(LdenStartTime, 19, 0))
EveningRows ==
    fetch_records(src_rows["LAeq15min"], replace_hms(LdenStartTime, 19, 0),
                  replace_hms(LdenStartTime, 22, 45))
NightRows ==
    fetch_records(src_rows["LAeq30min"], replace_hms(LdenStartTime, 23, 0) - 86400,
                  replace_hms(LdenStartTime, 6, 30))

UncInit == SyncInit /\ AppIdle /\ ValueIdle /\ SchedIdle /\ LdenIdle /\ UncStart /\ AudioIdle /\ TransferIdle /\ SupervisorIdle /\ StallIdle /\ StartupIdle /\ ShutdownIdle /\ LaeqIdle /\ GraceIdle /\ CleanupIdle /\ WatcherIdle /\ RestartIdle /\ WatchIdle

UncNext ==
    \/ LoadAggregator
    \/ LoadAggregatorError
    \/ UncBoundary

UncSpec == UncInit /\ [][UncNext]_vars

\* C18: after a 24h boundary whose Lden row exists and whose groups all
\* have source data, with the uncertainty aggregator configured, the U_Lden
\* table has exactly one row, keyed by the boundary.
C18_OneUncertaintyRowPerDay ==
    (/\ unc_pc = "done"
     /\ \E i \in DOMAIN unc_config : unc_config[i] = "Incertitude"
     /\ unc_lden_exists
     /\ unc_groups)
        => u_lden_rows = <<LdenStartTime>>

\* ------------------------------------------------------------------------
\* The audio recorder: specification
\* ------------------------------------------------------------------------
AudioInit == SyncInit /\ AppIdle /\ ValueIdle /\ SchedIdle /\ LdenIdle /\ UncIdle /\ AudioStart /\ TransferIdle /\ SupervisorIdle /\ StallIdle /\ StartupIdle /\ ShutdownIdle /\ LaeqIdle /\ GraceIdle /\ CleanupIdle /\ WatcherIdle /\ RestartIdle /\ WatchIdle

AudioNext ==
    \/ \E d \in AdvanceSteps : AudioAdvance(d)
    \/ RecTimestamp
    \/ WatchdogQuiet
    \/ \E failure \in Failures : ForceRotateClose(failure)
    \/ ForceRotateOpen
    \/ \E failure \in Failures : ReadAndWrite(failure)
    \/ ReadError

AudioSpec == AudioInit /\ [][AudioNext]_vars

\* C19: every chunk is in the file named after the minute of the timestamp
\* taken before the chunk was read.
C19_ChunkInFileOfItsMinute ==
    \A i \in DOMAIN chunks : chunks[i].file = truncate_to_minute(chunks[i].timestamp)

\* C20: a forced rotation closes the file that was open and opens the file
\* named after the minute of the clock the watchdog observed, before the
\* next chunk is written.
C20_WatchdogOpensFileOfObservedMinute ==
    \A i \in DOMAIN forced :
        /\ forced[i].closed # <<>> => forced[i].closed[1] \in converted
        /\ rec_pc # "rotating" =>
               forced[i].opened = <<truncate_to_minute(forced[i].now)>>

\* C21: at most one WAV file has an open handle, and it is the file the
\* writer holds, named after current_file_start_time.
C21_OneOpenFileNamedAfterStart ==
    /\ Cardinality(open_handles) <= 1
    /\ open_handles = {wavfile[i] : i \in DOMAIN wavfile}
    /\ wavfile # <<>> => wavfile = current_file_start_time

\* A natural rotation and a forced rotation have both happened, and a file
\* is open after them.
C21_Witness ==
    /\ forced # <<>>
    /\ wavfile # <<>>
    /\ \E f \in converted : \A j \in DOMAIN forced : forced[j].closed # <<f>>

TransferInit ==
    SyncInit /\ AppIdle /\ ValueIdle /\ SchedIdle /\ LdenIdle /\ UncIdle /\ AudioIdle /\ TransferStart /\ SupervisorIdle /\ StallIdle /\ StartupIdle /\ ShutdownIdle /\ LaeqIdle /\ GraceIdle /\ CleanupIdle /\ WatcherIdle /\ RestartIdle /\ WatchIdle

TransferNext ==
    \/ StageFile
    \/ \E m \in 1..MaxFiles : WriteLAeq1min(m)
    \/ \E v \in TriggerValues : TriggerChanged(v)
    \/ ScanDirectory
    \/ \E db_ok \in BOOLEAN, inserted \in BOOLEAN : ProcessAndUploadFile(db_ok, inserted)
    \/ ProcessFilesDone
    \/ \E db_ok \in BOOLEAN : PrepareDocument(db_ok)
    \/ \E inserted \in BOOLEAN : InsertBatch(inserted)

TransferSpec == TransferInit /\ [][TransferNext]_vars

\* C22: a file is deleted only after the acknowledged insert of its
\* document, or after the gating found its LAeq1min value missing or below
\* audio_trigger; a file whose LAeq1min row holds a value at or above
\* audio_trigger is not deleted without an acknowledged insert.
C22_DeletedOnlyAfterAckOrGating ==
    \A r \in removed :
        /\ \/ r.acknowledged
           \/ r.fetched = <<>>
           \/ r.trigger # <<>> /\ r.fetched # <<>> /\ r.fetched[1] < r.trigger[1]
        /\ (r.row # <<>> /\ r.trigger # <<>> /\ r.row[1] >= r.trigger[1]) => r.acknowledged

\* C23: no file is discarded, for want of a row, whose minute has an
\* LAeq1min value at or above audio_trigger once the row is written.
C23_NotDiscardedBeforeRowWritten ==
    \A r \in removed :
        (~r.acknowledged /\ r.row = <<>> /\ r.trigger # <<>>) =>
            ~(r.file \in laeq1min /\ MinuteLevel(r.file) >= r.trigger[1])

\* ------------------------------------------------------------------------
\* The disconnect callback: specification
\* ------------------------------------------------------------------------
SupervisorInit ==
    SyncInit /\ AppIdle /\ ValueIdle /\ SchedIdle /\ LdenIdle /\ UncIdle /\ AudioIdle /\ TransferIdle /\ SupervisorStart /\ StallIdle /\ StartupIdle /\ ShutdownIdle /\ LaeqIdle /\ GraceIdle /\ CleanupIdle /\ WatcherIdle /\ RestartIdle /\ WatchIdle

SupervisorNext ==
    \/ SvUnplug
    \/ SvPlug
    \/ PresenceFound
    \/ PresenceLost
    \/ ParametersUpdated
    \/ ScheduledResetFires
    \/ \E d \in 1..(MaxCalls + 1) : StallDetected(d)
    \/ \E c \in 1..MaxCalls : CallbackStopDetector(c)
    \/ \E c \in 1..MaxCalls : CallbackStopRunning(c)
    \/ \E c \in 1..MaxCalls : CallbackRestartAll(c)

SupervisorSpec == SupervisorInit /\ [][SupervisorNext]_vars

\* The invocations of the callback that have run their first statements
\* and have not returned.
Running == {c \in InProgress : sv_calls[c].pc # "begin"}

\* C24: at most one invocation of the disconnect callback is in progress.
C24_OneCallbackInProgress == Cardinality(Running) <= 1

\* The invocations in progress that MonitorStatus started.
MonitorCalls == {c \in InProgress : sv_calls[c].source \in {"presence", "reset"}}

\* C25, as stated: the presence loop has invoked the callback once for
\* every transition found -> not found it has seen.
C25_OneCallbackPerLoss == sv_loss_calls = sv_losses

\* C25, amended: every transition found -> not found clears the event and
\* invokes the callback once, except when the flag of MonitorStatus is set
\* (an invocation started by the presence loop or by the scheduled reset
\* has not returned): then it invokes nothing. Never are two invocations
\* started by MonitorStatus in progress.
C25_OneCallbackPerLossUnlessInProgress ==
    /\ sv_loss_calls + sv_skipped = sv_losses
    /\ Cardinality({c \in 1..MaxCalls : sv_calls[c].source = "presence"}) = sv_loss_calls
    /\ Cardinality(MonitorCalls) <= 1
    /\ sv_monitor = "waiting" => ~sv_event

\* One transition invoked the callback and another found the flag set.
C25_Witness == sv_loss_calls >= 1 /\ sv_skipped >= 1

\* C27: the callback restarts acquisition only when the sampler, recorder
\* and scheduler of the previous acquisition manager have stopped: never do
\* two acquisition managers run.
C27_RestartAfterPreviousStopped == Cardinality(sv_running) <= 1

\* ------------------------------------------------------------------------
\* The audio stall detector: specification
\* ------------------------------------------------------------------------
StallInit ==
    SyncInit /\ AppIdle /\ ValueIdle /\ SchedIdle /\ LdenIdle /\ UncIdle /\ AudioIdle /\ TransferIdle /\ SupervisorIdle /\ StallStart /\ StartupIdle /\ ShutdownIdle /\ LaeqIdle /\ GraceIdle /\ CleanupIdle /\ WatcherIdle /\ RestartIdle /\ WatchIdle

StallNext ==
    \/ FolderGrows
    \/ \E f \in 1..MaxStaged : FolderShrinks(f)
    \/ Scan
    \/ StopDetector
    \/ StallCallbackReturns

StallSpec == StallInit /\ [][StallNext]_vars

\* C26: once the newest timestamp of the folder has not advanced for 36
\* consecutive scans, an invocation of the callback started by the detector
\* is in progress: the detector invoked it at the 36th scan, or the one it
\* had started has not returned. The detector invokes nothing before that.
C26_StallInvokesCallback ==
    /\ sd_quiet >= 36 => sd_in_progress
    /\ (sd_invocations = 0 /\ sd_quiet < 36) => ~sd_in_progress

\* The detector has invoked the callback after 36 scans without a newer
\* timestamp, with a file in the folder.
C26_Witness == sd_quiet = 36 /\ sd_invocations = 1 /\ sd_in_progress /\ last_seen_timestamp # 0

\* ------------------------------------------------------------------------
\* Startup: specification
\* ------------------------------------------------------------------------
StartupInit ==
    SyncInit /\ AppIdle /\ ValueIdle /\ SchedIdle /\ LdenIdle /\ UncIdle /\ AudioIdle /\ TransferIdle /\ SupervisorIdle /\ StallIdle /\ (StartupBegin \/ ManagerStartEntered) /\ ShutdownIdle /\ LaeqIdle /\ GraceIdle /\ CleanupIdle /\ WatcherIdle /\ RestartIdle /\ WatchIdle

StartupNext ==
    \/ AwaitMySQLStart
    \/ \E created \in BOOLEAN : PoolAttempt(created)
    \/ StartPresenceLoop
    \/ SensorToggles
    \/ PresencePoll
    \/ PresenceLoss
    \/ CreateAcquisitionTasks
    \/ AggregationStarts
    \/ StreamsStart

StartupSpec == StartupInit /\ [][StartupNext]_vars

RECURSIVE ExpectedDelay(_)
ExpectedDelay(i) == IF i = 1 THEN 1 ELSE Min(2 * ExpectedDelay(i - 1), 60)

\* The delays slept so far are 1, 2, 4, ... with a cap of 60.
BackoffDelays == \A i \in DOMAIN su_slept : su_slept[i] = ExpectedDelay(i)

\* C30: at startup the creation of the pool is retried until it succeeds,
\* with delays 1, 2, 4, ... of at most 60 s: start() leaves the pool manager
\* only with a pool, and neither the presence loop nor acquisition is started
\* without one.
C30_PoolRetriedUntilReady ==
    /\ su_pc \notin {"none", "start", "pool_retry"} => su_pool = "pool"
    /\ BackoffDelays
    /\ (su_started # {} \/ su_acquisition # "none") => su_pool = "pool"

\* ------------------------------------------------------------------------
\* Shutdown: specification
\* ------------------------------------------------------------------------
ShutdownInit ==
    SyncInit /\ AppIdle /\ ValueIdle /\ SchedIdle /\ LdenIdle /\ UncIdle /\ AudioIdle /\ TransferIdle /\ SupervisorIdle /\ StallIdle /\ StartupIdle /\ ShutdownDue /\ LaeqIdle /\ GraceIdle /\ CleanupIdle /\ WatcherIdle /\ RestartIdle /\ WatchIdle

ShutdownNext ==
    \/ \E c \in Components : ComponentWorks(c)
    \/ StopCalled
    \/ CancelTask
    \/ StopAcquisitionManager
    \/ StopRemoteSync
    \/ StopPoolManager

ShutdownSpec == ShutdownInit /\ [][ShutdownNext]_vars

\* The steps of the shutdown, in the order of the specification.
ShutdownOrder == <<"tasks", "aggregators", "sampler", "recorder", "remote", "pool">>

StepRank(step) == CHOOSE i \in DOMAIN ShutdownOrder : ShutdownOrder[i] = step

\* C29: a call of stop() does not end before its last step: the steps it
\* reaches are in the order tasks cancelled, aggregators, sampler and audio
\* recorder stopped, RemoteSync stopped, pool closed; once it has ended the
\* tasks are cancelled, the components of an existing acquisition manager
\* are stopped, RemoteSync is stopped and the pool manager has been asked to
\* close the pool, and an open pool is closed only with RemoteSync stopped.
C29_ShutdownReachesEveryStepInOrder ==
    /\ \A i, j \in DOMAIN sh_steps : i < j => StepRank(sh_steps[i]) < StepRank(sh_steps[j])
    /\ sh_pool = "closed" => "remote" \notin sh_live
    /\ sh_pc # "raised"
    /\ sh_pc = "stopped" =>
           /\ sh_live = {}
           /\ sh_pool # "open"
           /\ sh_steps[Len(sh_steps)] = "pool"

\* ------------------------------------------------------------------------
\* The LAeq helper and the 1min level: specification
\* ------------------------------------------------------------------------
LaeqInit ==
    SyncInit /\ AppIdle /\ ValueIdle /\ SchedIdle /\ LdenIdle /\ UncIdle /\ AudioIdle /\ TransferIdle /\ SupervisorIdle /\ StallIdle /\ StartupIdle /\ ShutdownIdle /\ LaeqStart /\ GraceIdle /\ CleanupIdle /\ WatcherIdle /\ RestartIdle /\ WatchIdle

LaeqNext ==
    \/ LaeqAdvance
    \/ \E t \in 0..LaBoundary : SamplerWritesRow(t)
    \/ BoundaryTick
    \/ AggregateData
    \/ \E sound_levels \in HelperInputs : HelperCall(sound_levels)

LaeqSpec == LaeqInit /\ [][LaeqNext]_vars

\* 10 * log10(mean(10 ** (x / 10))) over the levels of the seconds of the
\* window [start, end), rounded to hundredths.
WindowFormula == LAeqAggregator_calculate_laeq(LevelsOf(la_levels, 0..(LaBoundary - 1)))

\* |x - y| <= d, in hundredths of a dB.
Within(x, y, d) == x.k = "fin" /\ y.k = "fin" /\ x.v - y.v <= d /\ y.v - x.v <= d

\* C31: the helper gives 70.00 for eight levels of 70 and 77.04, to 0.01 dB,
\* for [60, 80], and the aggregate stored for a boundary is within 0.01 dB of
\* the formula applied to the levels of the source window.
C31_LAeqIsEnergyMeanOfWindow ==
    /\ \A i \in DOMAIN la_helper :
           /\ la_helper[i][1] = [j \in 1..8 |-> Fin(7000)] => la_helper[i][2] = Fin(7000)
           /\ la_helper[i][1] = <<Fin(6000), Fin(8000)>> => Within(la_helper[i][2], Fin(7704), 1)
    /\ \A r \in la_target : Within(r[2], WindowFormula, 1)

\* C32: a cycle that ends with fewer than 1/tau readings for its second s
\* writes no row and the sampler goes on with the second s + 1.
C32_IncompleteSecondIsSkipped ==
    [][\A g \in Managers :
          (/\ streams[g].pc = "sampling"
           /\ streams[g].i = samples_per_second
           /\ streams[g].laf_values < samples_per_second
           /\ streams'[g] # streams[g])
          => /\ localRows' = localRows
             /\ streams'[g].last_cycle_start = streams[g].last_cycle_start + 1]_vars

\* The LAeq1h rows of the aggregated day stamped 07:00 up to, and not
\* including, 19:00.
HalfOpenDayRows ==
    {ts \in src_rows["LAeq1h"] :
        ts >= replace_hms(LdenStartTime, 7, 0) /\ ts < replace_hms(LdenStartTime, 19, 0)}

\* C33: the lday_eu of an Lden row is the LAeq of exactly the LAeq1h rows
\* stamped in [07:00, 19:00) of the aggregated day; the row stamped 19:00
\* takes no part in it.
C33_LdayEuOverHalfOpenRange ==
    \A i \in DOMAIN lden_rows :
        lden_rows[i].lday_eu =
            IF HalfOpenDayRows = {} THEN None
            ELSE LAeqAggregator_calculate_laeq(
                     [j \in 1..Cardinality(HalfOpenDayRows) |-> Fin(src_level["LAeq1h"])])

\* ------------------------------------------------------------------------
\* The 24h boundary: specification
\* ------------------------------------------------------------------------
GraceInit ==
    SyncInit /\ AppIdle /\ ValueIdle /\ SchedIdle /\ LdenIdle /\ UncIdle /\ AudioIdle /\ TransferIdle /\ SupervisorIdle /\ StallIdle /\ StartupIdle /\ ShutdownIdle /\ LaeqIdle /\ GraceStart /\ CleanupIdle /\ WatcherIdle /\ RestartIdle /\ WatchIdle

GraceNext ==
    \/ GraceAdvance
    \/ NotifyNext
    \/ AggregateLden
    \/ ReadLdenComponents

GraceSpec == GraceInit /\ [][GraceNext]_vars

CleanupInit ==
    SyncInit /\ AppIdle /\ ValueIdle /\ SchedIdle /\ LdenIdle /\ UncIdle /\ AudioIdle /\ TransferIdle /\ SupervisorIdle /\ StallIdle /\ StartupIdle /\ ShutdownIdle /\ LaeqIdle /\ GraceIdle /\ CleanupStart /\ WatcherIdle /\ RestartIdle /\ WatchIdle

CleanupNext ==
    \/ \E new_minute \in BOOLEAN : RecorderWrites(new_minute)
    \/ \E source \in {"callback", "shutdown"} : StopRecorder(source)
    \/ EventLoopCloses

CleanupSpec == CleanupInit /\ [][CleanupNext]_vars

\* C35: once the pipeline has stopped the recorder, no WAV file is open, the
\* recorder has left its loop and it writes no further chunk.
C35_RecorderStoppedAndFileFinalized ==
    cu_pc \in {"raised", "returned"} =>
        /\ ~cu_wav_open
        /\ cu_recorder = "stopped"
        /\ cu_after = 0

\* ------------------------------------------------------------------------
\* The watcher of updated_parameters: specification
\* ------------------------------------------------------------------------
WatcherInit ==
    SyncInit /\ AppIdle /\ ValueIdle /\ SchedIdle /\ LdenIdle /\ UncIdle /\ AudioIdle /\ TransferIdle /\ SupervisorIdle /\ StallIdle /\ StartupIdle /\ ShutdownIdle /\ LaeqIdle /\ GraceIdle /\ CleanupIdle /\ WatcherStart /\ RestartIdle /\ WatchIdle

WatcherNext ==
    \/ \E v \in RemoteValues : RemoteUpdate(v)
    \/ TakeChange
    \/ \E db_ok \in BOOLEAN : UpdateParameters(db_ok)
    \/ \E db_ok \in BOOLEAN, remove_ok \in BOOLEAN, write_ok \in BOOLEAN :
           ResetUpdatedParameters(db_ok, remove_ok, write_ok)
    \/ HandleCallbackReturns

WatcherSpec == WatcherInit /\ [][WatcherNext]_vars

\* The order of the effects of one remote update.
UpdateOrder == <<"write", "reset", "restart">>

\* The watcher awaits the next event and none is pending.
Quiescent == wt_pc = "idle" /\ wt_stream = <<>>

\* C37: the effects of a remote update come in the order write of
\* parameters.json, reset of updated_parameters, restart; and when the
\* watcher is quiescent after one remote update whose reset was done, they
\* are exactly these three.
C37_WriteResetRestartOnce ==
    /\ \A i \in DOMAIN wt_log : wt_log[i] = UpdateOrder[((i - 1) % 3) + 1]
    /\ (Quiescent /\ wt_remote = 1 /\ wt_updated = "nulls") => wt_log = UpdateOrder

\* ------------------------------------------------------------------------
\* The restart by the disconnect callback (main.py 100-166): specification
\* ------------------------------------------------------------------------
RestartInit ==
    SyncInit /\ AppIdle /\ ValueIdle /\ SchedIdle /\ LdenIdle /\ UncIdle /\ AudioIdle /\ TransferIdle /\ SupervisorIdle /\ StallIdle /\ StartupIdle /\ ShutdownIdle /\ LaeqIdle /\ GraceIdle /\ CleanupIdle /\ WatcherIdle /\ RestartBegin /\ WatchIdle

RestartNext ==
    \/ StopBeforeRestart
    \/ DeviceReconnects
    \/ DeviceWaitReturns
    \/ \E ok \in BOOLEAN : RestartAttempt(ok)
    \/ RetrySleepReturns
    \/ \E ok \in BOOLEAN : AcquisitionTaskEnds(ok)
    \/ StallScan

RestartSpec == RestartInit /\ [][RestartNext]_vars

\* The event loop runs every task that can run, the device comes back and
\* the detector keeps scanning; which attempts raise is not forced, and at
\* most MaxRestartFailures do.
RestartFairness ==
    /\ WF_vars(StopBeforeRestart)
    /\ WF_vars(DeviceReconnects)
    /\ WF_vars(DeviceWaitReturns)
    /\ WF_vars(\E ok \in BOOLEAN : RestartAttempt(ok))
    /\ WF_vars(RetrySleepReturns)
    /\ WF_vars(\E ok \in BOOLEAN : AcquisitionTaskEnds(ok))
    /\ WF_vars(StallScan)

RestartLiveSpec == RestartInit /\ [][RestartNext]_vars /\ RestartFairness

\* C39: after the callback was invoked and with the device connected, the
\* pipeline of the manager the application holds and the stall detector
\* eventually run.
C39_RestartedEventually ==
    (rs_calls > 0 /\ rs_event) ~> (rs_running /\ rs_detector)

\* ------------------------------------------------------------------------
\* The stall detector beside the recorder and the uploader, in time: specification
\* ------------------------------------------------------------------------
WatchInit ==
    SyncInit /\ AppIdle /\ ValueIdle /\ SchedIdle /\ LdenIdle /\ UncIdle /\ AudioIdle /\ TransferIdle /\ SupervisorIdle /\ StallIdle /\ StartupIdle /\ ShutdownIdle /\ LaeqIdle /\ GraceIdle /\ CleanupIdle /\ WatcherIdle /\ RestartIdle /\ WatchStart

WatchNext ==
    \/ RecorderStages
    \/ WatchdogScans
    \/ UploaderLists
    \/ \E latency \in UploadLatencies : UploaderProcesses(latency)
    \/ WatchTick

WatchSpec == WatchInit /\ [][WatchNext]_vars

\* C40: while the recorder stages a file every minute, the detector does not
\* invoke the callback, whatever the uploader deletes.
C40_NoStallWhileRecorderStages ==
    ~wd_invoked

====
